---- MODULE Spec2Model ----
(***************************************************************************)
(* The 12.48" e-paper upload pipeline of upload-epd.ts: palette            *)
(* quantisation, plane separation, nibble packing, the panel's quadrant    *)
(* reordering and the chunked four-step HTTP upload.                       *)
(*                                                                         *)
(* Numbers are JavaScript numbers.  Bytes, indices and lengths are plain   *)
(* integers.  A typed-array read past the end yields Undefined.  Strings   *)
(* made of 'a'..'p' are sequences of character codes 97..112.              *)
(***************************************************************************)
EXTENDS Integers, Sequences, FiniteSets, TLC

VARIABLES
  pc,        \* position of the running call
  model,     \* argument: model identifier string
  mode,      \* argument: mode 0..3, or Undefined when the caller omits it
  rgba,      \* argument: the caller's RGBA byte buffer
  bChunks,   \* uploadImageBuffer: chunks of the reordered black plane
  rChunks,   \* uploadImageBuffer: chunks of the reordered red/yellow plane
  i,         \* uploadImageBuffer: the running chunk loop's counter
  wire,      \* every request issued so far, in issue order, with its fate
  error,     \* the error the call rejected with
  out,       \* quantizer / makePlanes result
  pal,       \* quantizer argument: the palette
  dy, dx,    \* quantizeDitherWeb: loop counters y and x
  errA,      \* quantizeDitherWeb: error row of the current line
  errB,      \* quantizeDitherWeb: error row of the next line
  arg,       \* packToChars / reorderFor1248 / chunk called on its own: the argument
  calls,     \* the quantizer calls that returned before the running one
  sessions,  \* overlapping uploadImageBuffer calls: each call's own locals
  device,    \* overlapping calls: the requests in the order the device receives them
  env,       \* run(): the process environment it reads
  steps,     \* run(): the pipeline steps started so far, in order
  fetches    \* fetchKBZKLocalHeadlines: the fetch attempts made, with their timers

vars == <<pc, model, mode, rgba, bChunks, rChunks, i, wire, error,
          out, pal, dy, dx, errA, errB, arg, calls,
          sessions, device, env, steps, fetches>>

uploadVars == <<bChunks, rChunks, i, wire, error>>
quantVars == <<out, pal, dy, dx, errA, errB>>
overlapVars == <<sessions, device>>
runVars == <<env, steps>>
helperVars == <<arg, calls, overlapVars, runVars, fetches>>

(***************************************************************************)
(* Geometry.  The panel is 1304 x 984 pixels: 326 packed characters a row, *)
(* 492 rows a half, 162 characters in the left block, 30000 characters a   *)
(* chunk.  The model keeps the same shape at a smaller scale: the width    *)
(* stays a multiple of 4 and the height stays even.                        *)
(***************************************************************************)
PanelGroups == 3
PanelHalfRows == 2
PanelLeft == 1
ChunkLen == 5

CHUNK_SIZE == ChunkLen
WIDTH == 4 * PanelGroups
HEIGHT == 2 * PanelHalfRows
XSTR == (WIDTH + 3) \div 4
TOP_HALF_ROWS == HEIGHT \div 2
LEFT_NIBBLES == PanelLeft
RIGHT_NIBBLES == XSTR - LEFT_NIBBLES

\* The panel's own numbers, for the arithmetic the claims quote.
REAL_CHUNK_SIZE == 30000
REAL_WIDTH == 1304
REAL_HEIGHT == 984
REAL_XSTR == (REAL_WIDTH + 3) \div 4
REAL_TOP_HALF_ROWS == REAL_HEIGHT \div 2
REAL_LEFT_NIBBLES == 162
REAL_RIGHT_NIBBLES == REAL_XSTR - REAL_LEFT_NIBBLES

(***************************************************************************)
(* JavaScript values.                                                      *)
(***************************************************************************)
Undefined == -1

\* typedArray[k], k counted from 0
At(buf, k) == IF k < Len(buf) THEN buf[k + 1] ELSE Undefined

\* s.slice(a, b) for 0 <= a <= b
Slice(s, a, b) ==
  LET hi == IF b < Len(s) THEN b ELSE Len(s)
  IN  IF a >= hi THEN <<>> ELSE SubSeq(s, a + 1, hi)

(***************************************************************************)
(* MODELS and the lookups MODELS[model], MODELS[model].color.  MODELS is   *)
(* an object literal, so a key it does not own is looked up on             *)
(* Object.prototype: the names below yield an inherited (truthy) member    *)
(* whose .color is undefined; any other string yields undefined.           *)
(***************************************************************************)
MONO == "12.48inch e-Paper"
MODEL_B == "12.48inch e-Paper (B)"
MODEL_C == "12.48inch e-Paper (C)"

MODELS == (MONO :> [color |-> 0]) @@ (MODEL_B :> [color |-> 1]) @@ (MODEL_C :> [color |-> 2])

ObjectPrototypeKeys ==
  {"constructor", "toString", "valueOf", "hasOwnProperty", "isPrototypeOf",
   "propertyIsEnumerable", "toLocaleString", "__proto__"}

\* the truthiness of MODELS[model]
ModelTruthy(m) == m \in DOMAIN MODELS \/ m \in ObjectPrototypeKeys

\* MODELS[model].color, read only after the guard !MODELS[model] has passed
ColorOf(m) == IF m \in DOMAIN MODELS THEN MODELS[m].color ELSE Undefined

\* the truthiness of colorFlag
Truthy(colorFlag) == colorFlag # 0 /\ colorFlag # Undefined

(***************************************************************************)
(* makePlanes                                                              *)
(***************************************************************************)
\* the accent of a yellow panel taken as pure yellow
AccentPureYellow(colorFlag) ==
  IF colorFlag = 1 THEN <<255, 0, 0>>
  ELSE IF colorFlag = 2 THEN <<255, 255, 0>>
  ELSE <<>>

Accent(colorFlag) ==
  IF colorFlag = 1 THEN <<255, 0, 0>>
  ELSE IF colorFlag = 2 THEN <<220, 180, 0>>
  ELSE <<>>

\* ((mode ?? 1) & 0x01) === 1
LowBit(m) == (IF m = Undefined THEN 1 ELSE m) % 2 = 1

\* triColor decided by the model alone
TriColorIgnoresMode(colorFlag, m) == colorFlag # 0

\* triColor read from the mode's second bit
TriColorFromSecondBit(colorFlag, m) ==
  colorFlag # 0 /\ ((IF m = Undefined THEN 1 ELSE m) \div 2) % 2 = 1

TriColor(colorFlag, m) == colorFlag # 0 /\ LowBit(m)

\* the accent test as a second, independent if that takes every non-white pixel
PlaneBitsTwoIfs(r, g, b, a, triColor, accent) ==
  IF a = 0 THEN <<1, 1>>
  ELSE LET isWhite == r = 255 /\ g = 255 /\ b = 255
           isBlack == r = 0 /\ g = 0 /\ b = 0
       IN  <<IF isBlack THEN 0 ELSE 1,
             IF ~isWhite /\ triColor /\ accent # <<>> THEN 0 ELSE 1>>

\* The loop body for one pixel: <<blackBits[i], ryBits[i]>>.
PlaneBits(r, g, b, a, triColor, accent) ==
  IF a = 0 THEN <<1, 1>>
  ELSE LET isWhite == r = 255 /\ g = 255 /\ b = 255
           isBlack == r = 0 /\ g = 0 /\ b = 0
       IN  IF isBlack THEN <<0, 1>>
           ELSE IF ~isWhite /\ triColor /\ accent # <<>>
                   /\ r = accent[1] /\ g = accent[2] /\ b = accent[3]
                THEN <<1, 0>>
                ELSE <<1, 1>>

\* the planes sized by the buffer handed in instead of by the panel
makePlanesSizedByInput(buf, m, md) ==
  LET total == Len(buf) \div 4
      colorFlag == ColorOf(m)
      triColor == TriColor(colorFlag, md)
      accent == Accent(colorFlag)
      px(p) == PlaneBits(At(buf, 4 * p), At(buf, 4 * p + 1), At(buf, 4 * p + 2),
                         At(buf, 4 * p + 3), triColor, accent)
  IN  [blackBits |-> [n \in 1..total |-> px(n - 1)[1]],
       ryBits    |-> [n \in 1..total |-> px(n - 1)[2]]]

makePlanes(buf, m, md) ==
  LET total == WIDTH * HEIGHT
      colorFlag == ColorOf(m)
      triColor == TriColor(colorFlag, md)
      accent == Accent(colorFlag)
      px(p) == PlaneBits(At(buf, 4 * p), At(buf, 4 * p + 1), At(buf, 4 * p + 2),
                         At(buf, 4 * p + 3), triColor, accent)
  IN  [blackBits |-> [n \in 1..total |-> px(n - 1)[1]],
       ryBits    |-> [n \in 1..total |-> px(n - 1)[2]]]

(***************************************************************************)
(* packToChars                                                             *)
(***************************************************************************)
\* the loop body filling a nibble from its lowest bit upwards
RECURSIVE PackBitsLowBitFirst(_, _, _, _)
PackBitsLowBitFirst(bits, k, acc, j) ==
  IF k >= Len(bits) \/ j = 4 THEN [acc |-> acc, j |-> j, k |-> k]
  ELSE PackBitsLowBitFirst(bits, k + 1, acc + (bits[k + 1] % 2) * 2 ^ j, j + 1)

\* the loop body from bit k on, acc += (bits[i] & 1) << (3 - j); j++, until
\* j is 4 or the bits run out
RECURSIVE PackBits(_, _, _, _)
PackBits(bits, k, acc, j) ==
  IF k >= Len(bits) \/ j = 4 THEN [acc |-> acc, j |-> j, k |-> k]
  ELSE PackBits(bits, k + 1, acc + (bits[k + 1] % 2) * 2 ^ (3 - j), j + 1)

\* one character for every group the loop completes (j === 4) and one for the
\* group the bits run out in (j !== 0 after the loop)
RECURSIVE PackLoop(_, _, _)
PackLoop(bits, k, s) ==
  IF k >= Len(bits) THEN s
  ELSE LET group == PackBits(bits, k, 0, 0)
       IN  PackLoop(bits, group.k, Append(s, 97 + group.acc))

packToChars(bits) == PackLoop(bits, 0, <<>>)

(***************************************************************************)
(* reorderFor1248                                                          *)
(***************************************************************************)
\* for (row = from; row < to; row++) out += msg.slice(row*XSTR + lo, row*XSTR + hi)
RECURSIVE RowSlices(_, _, _, _, _)
RowSlices(msg, from, to, lo, hi) ==
  IF from >= to THEN <<>>
  ELSE Slice(msg, from * XSTR + lo, from * XSTR + hi)
         \o RowSlices(msg, from + 1, to, lo, hi)

\* the bottom half's loops running over the top half's rows again
reorderFor1248TopRowsTwice(msg) ==
  IF Len(msg) # XSTR * HEIGHT
  THEN [threw |-> TRUE, value |-> <<>>]
  ELSE [threw |-> FALSE,
        value |-> RowSlices(msg, 0, TOP_HALF_ROWS, 0, LEFT_NIBBLES)
                    \o RowSlices(msg, 0, TOP_HALF_ROWS, LEFT_NIBBLES, XSTR)
                    \o RowSlices(msg, 0, TOP_HALF_ROWS, 0, LEFT_NIBBLES)
                    \o RowSlices(msg, 0, TOP_HALF_ROWS, LEFT_NIBBLES, XSTR)]

\* both left blocks emitted before both right blocks
reorderFor1248LeftBlocksFirst(msg) ==
  IF Len(msg) # XSTR * HEIGHT
  THEN [threw |-> TRUE, value |-> <<>>]
  ELSE [threw |-> FALSE,
        value |-> RowSlices(msg, 0, TOP_HALF_ROWS, 0, LEFT_NIBBLES)
                    \o RowSlices(msg, TOP_HALF_ROWS, HEIGHT, 0, LEFT_NIBBLES)
                    \o RowSlices(msg, 0, TOP_HALF_ROWS, LEFT_NIBBLES, XSTR)
                    \o RowSlices(msg, TOP_HALF_ROWS, HEIGHT, LEFT_NIBBLES, XSTR)]

\* the length test refusing only a string that is too short
reorderFor1248RefusesShortOnly(msg) ==
  IF Len(msg) < XSTR * HEIGHT
  THEN [threw |-> TRUE, value |-> <<>>]
  ELSE [threw |-> FALSE,
        value |-> RowSlices(msg, 0, TOP_HALF_ROWS, 0, LEFT_NIBBLES)
                    \o RowSlices(msg, 0, TOP_HALF_ROWS, LEFT_NIBBLES, XSTR)
                    \o RowSlices(msg, TOP_HALF_ROWS, HEIGHT, 0, LEFT_NIBBLES)
                    \o RowSlices(msg, TOP_HALF_ROWS, HEIGHT, LEFT_NIBBLES, XSTR)]

reorderFor1248(msg) ==
  IF Len(msg) # XSTR * HEIGHT
  THEN [threw |-> TRUE, value |-> <<>>]
  ELSE [threw |-> FALSE,
        value |-> RowSlices(msg, 0, TOP_HALF_ROWS, 0, LEFT_NIBBLES)
                    \o RowSlices(msg, 0, TOP_HALF_ROWS, LEFT_NIBBLES, XSTR)
                    \o RowSlices(msg, TOP_HALF_ROWS, HEIGHT, 0, LEFT_NIBBLES)
                    \o RowSlices(msg, TOP_HALF_ROWS, HEIGHT, LEFT_NIBBLES, XSTR)]

(***************************************************************************)
(* chunk                                                                   *)
(***************************************************************************)
\* chunk's loop stopping before a trailing partial slice
RECURSIVE ChunkLoopDropsTail(_, _, _, _)
ChunkLoopDropsTail(s, n, k, acc) ==
  IF k + n <= Len(s)
  THEN ChunkLoopDropsTail(s, n, k + n, Append(acc, Slice(s, k, k + n)))
  ELSE acc

\* chunk's loop slicing one character past the chunk's end
RECURSIVE ChunkLoopEndInclusive(_, _, _, _)
ChunkLoopEndInclusive(s, n, k, acc) ==
  IF k < Len(s) THEN ChunkLoopEndInclusive(s, n, k + n, Append(acc, Slice(s, k, k + n + 1)))
  ELSE acc

RECURSIVE ChunkLoop(_, _, _, _)
ChunkLoop(s, n, k, acc) ==
  IF k < Len(s) THEN ChunkLoop(s, n, k + n, Append(acc, Slice(s, k, k + n)))
  ELSE acc

chunk(s, n) == ChunkLoop(s, n, 0, <<>>)

(***************************************************************************)
(* Input buffers.  A pixel is <<r, g, b, a>>; an image is its pixels'      *)
(* bytes in row-major order.                                               *)
(***************************************************************************)
Black == <<0, 0, 0, 255>>
White == <<255, 255, 255, 255>>
Red == <<255, 0, 0, 255>>
Yellow == <<220, 180, 0, 255>>

\* the bytes of a sequence of pixels
Image(pixels) ==
  [k \in 1..(4 * Len(pixels)) |-> pixels[((k - 1) \div 4) + 1][((k - 1) % 4) + 1]]

Uniform(c) == Image([p \in 1..(WIDTH * HEIGHT) |-> c])

Cycle == <<Black, White, Red, Yellow, <<0, 0, 0, 0>>, White, Black, Yellow, <<255, 0, 0, 0>>>>
Striped == Image([p \in 1..(WIDTH * HEIGHT) |-> Cycle[((p - 1) % Len(Cycle)) + 1]])

\* buffers of the wrong size: empty, a few bytes short, one pixel long
TooShort == SubSeq(Striped, 1, Len(Striped) - 6)
TooLong == Striped \o Black

UploadBuffers == {Uniform(Black), Uniform(White), Striped, <<>>, TooShort, TooLong}

ModelInputs == {MONO, MODEL_B, MODEL_C, "12.48inch e-Paper (D)", "constructor"}
ModeInputs == {0, 1, 2, 3, Undefined}

(***************************************************************************)
(* The device's answers.  res.ok is true for a status in 200..299.         *)
(***************************************************************************)
HttpStatuses == {200, 204, 404, 500}
ResponseTexts == {"", "busy"}
ResOk(status) == status >= 200 /\ status <= 299

NoError == [kind |-> "none", path |-> "", status |-> 0, text |-> ""]

\* what a request has been answered with: nothing yet
NoResponse == [status |-> 0, text |-> "", readable |-> TRUE]

Request(path, body) ==
  [path |-> path, body |-> body, fate |-> "pending", response |-> NoResponse]

Settle(w, fate) == [w EXCEPT ![Len(w)] = [@ EXCEPT !.fate = fate]]

Pending == pc = "await" /\ wire # <<>> /\ wire[Len(wire)].fate = "pending"

(***************************************************************************)
(* uploadImageBuffer, up to its first await: the model check, the planes,  *)
(* packing, reordering, chunking and the fetch of POST /EPD.               *)
(***************************************************************************)
uploadImageBuffer ==
  /\ pc = "call"
  /\ UNCHANGED <<model, mode, rgba, i>>
  /\ UNCHANGED quantVars
  /\ UNCHANGED helperVars
  /\ IF ~ModelTruthy(model)
     THEN /\ pc' = "rejected"
          /\ error' = [NoError EXCEPT !.kind = "Unsupported model"]
          /\ UNCHANGED <<bChunks, rChunks, wire>>
     ELSE LET md == IF mode = Undefined THEN 2 ELSE mode
              colorFlag == ColorOf(model)
              planes == makePlanes(rgba, model, md)
              bMsg == packToChars(planes.blackBits)
              rMsg == IF Truthy(colorFlag) THEN packToChars(planes.ryBits) ELSE <<>>
              bOrdered == reorderFor1248(bMsg)
              rOrdered == IF Truthy(colorFlag) THEN reorderFor1248(rMsg)
                          ELSE [threw |-> FALSE, value |-> <<>>]
          IN  IF bOrdered.threw \/ rOrdered.threw
              THEN /\ pc' = "rejected"
                   /\ error' = [NoError EXCEPT !.kind = "Unexpected message length"]
                   /\ UNCHANGED <<bChunks, rChunks, wire>>
              ELSE /\ bChunks' = chunk(bOrdered.value, CHUNK_SIZE)
                   /\ rChunks' = IF Truthy(colorFlag) THEN chunk(rOrdered.value, CHUNK_SIZE)
                                 ELSE <<>>
                   /\ wire' = <<Request("EPD", model)>>
                   /\ pc' = "await"
                   /\ UNCHANGED error

(***************************************************************************)
(* What uploadImageBuffer does when the postText it awaits returns: the    *)
(* next request, or the end of the call.  k is the loop counter.           *)
(***************************************************************************)
\* the second loop posting to the first loop's endpoint
LoopBPostsToLoadA(k, m, rC) ==
  IF k < Len(rC) THEN [path |-> "LOADA", body |-> rC[k + 1], i |-> k]
  ELSE [path |-> "SHOW", body |-> m, i |-> k]

LoopB(k, m, rC) ==
  IF k < Len(rC) THEN [path |-> "LOADB", body |-> rC[k + 1], i |-> k]
  ELSE [path |-> "SHOW", body |-> m, i |-> k]

AfterLoadA(k, m, rC) ==
  IF Truthy(ColorOf(m)) THEN LoopB(0, m, rC)
  ELSE [path |-> "SHOW", body |-> m, i |-> k]

LoopA(k, m, bC, rC) ==
  IF k < Len(bC) THEN [path |-> "LOADA", body |-> bC[k + 1], i |-> k]
  ELSE AfterLoadA(k, m, rC)

AfterReturn(path, k, m, bC, rC) ==
  IF path = "EPD" THEN LoopA(0, m, bC, rC)
  ELSE IF path = "LOADA" THEN LoopA(k + 1, m, bC, rC)
  ELSE IF path = "LOADB" THEN LoopB(k + 1, m, rC)
  ELSE [path |-> "return", body |-> m, i |-> k]

(***************************************************************************)
(* postText: the response arrives.                                         *)
(***************************************************************************)
postTextOk ==
  /\ Pending
  /\ \E status \in HttpStatuses :
       /\ ResOk(status)
       /\ LET acked == Settle(wire, "ok")
              nxt == AfterReturn(wire[Len(wire)].path, i, model, bChunks, rChunks)
          IN  IF nxt.path = "return"
              THEN /\ wire' = acked
                   /\ pc' = "done"
                   /\ UNCHANGED i
              ELSE /\ wire' = Append(acked, Request(nxt.path, nxt.body))
                   /\ i' = nxt.i
                   /\ UNCHANGED pc
  /\ UNCHANGED <<model, mode, rgba, bChunks, rChunks, error>>
  /\ UNCHANGED quantVars
  /\ UNCHANGED helperVars

\* postText returning normally on a non-success response
postTextNotOkSwallowed ==
  /\ Pending
  /\ \E status \in HttpStatuses :
       /\ ~ResOk(status)
       /\ LET settled == Settle(wire, "failed")
              nxt == AfterReturn(wire[Len(wire)].path, i, model, bChunks, rChunks)
          IN  IF nxt.path = "return"
              THEN /\ wire' = settled
                   /\ pc' = "done"
                   /\ UNCHANGED i
              ELSE /\ wire' = Append(settled, Request(nxt.path, nxt.body))
                   /\ i' = nxt.i
                   /\ UNCHANGED pc
  /\ UNCHANGED <<model, mode, rgba, bChunks, rChunks, error>>
  /\ UNCHANGED quantVars
  /\ UNCHANGED helperVars

\* postText without the catch on res.text(): a failed body read rejects instead
postTextNotOkBodyReadThrows ==
  /\ Pending
  /\ \E status \in HttpStatuses, text \in ResponseTexts, readable \in BOOLEAN :
       /\ ~ResOk(status)
       /\ wire' = [Settle(wire, "failed") EXCEPT ![Len(wire)].response =
                     [status |-> status, text |-> text, readable |-> readable]]
       /\ error' = IF readable
                   THEN [kind |-> "POST", path |-> wire[Len(wire)].path,
                         status |-> status, text |-> text]
                   ELSE [NoError EXCEPT !.kind = "body read failed"]
       /\ pc' = "rejected"
  /\ UNCHANGED <<model, mode, rgba, bChunks, rChunks, i>>
  /\ UNCHANGED quantVars
  /\ UNCHANGED helperVars

\* !res.ok: read the body (a failed read gives ""), throw
postTextNotOk ==
  /\ Pending
  /\ \E status \in HttpStatuses, text \in ResponseTexts, readable \in BOOLEAN :
       /\ ~ResOk(status)
       /\ wire' = [Settle(wire, "failed") EXCEPT ![Len(wire)].response =
                     [status |-> status, text |-> text, readable |-> readable]]
       /\ error' = [kind |-> "POST", path |-> wire[Len(wire)].path, status |-> status,
                    text |-> IF readable THEN text ELSE ""]
       /\ pc' = "rejected"
  /\ UNCHANGED <<model, mode, rgba, bChunks, rChunks, i>>
  /\ UNCHANGED quantVars
  /\ UNCHANGED helperVars

\* fetch itself rejects (no HTTP response): the rejection passes through postText
fetchRejects ==
  /\ Pending
  /\ wire' = Settle(wire, "refused")
  /\ error' = [NoError EXCEPT !.kind = "fetch failed"]
  /\ pc' = "rejected"
  /\ UNCHANGED <<model, mode, rgba, bChunks, rChunks, i>>
  /\ UNCHANGED quantVars
  /\ UNCHANGED helperVars

\* the device accepts the request and never answers it
deviceSilent ==
  /\ Pending
  /\ wire' = Settle(wire, "silent")
  /\ UNCHANGED <<pc, model, mode, rgba, bChunks, rChunks, i, error>>
  /\ UNCHANGED quantVars
  /\ UNCHANGED helperVars

QuantIdle ==
  /\ out = <<>> /\ pal = <<>> /\ dy = 0 /\ dx = 0 /\ errA = <<>> /\ errB = <<>>

OverlapIdle ==
  /\ sessions = <<>> /\ device = <<>>

RunIdle ==
  /\ env = <<>> /\ steps = <<>>

HelperIdle ==
  /\ arg = <<>> /\ calls = <<>> /\ fetches = <<>>
  /\ OverlapIdle
  /\ RunIdle

Init ==
  /\ pc = "call"
  /\ model \in ModelInputs
  /\ mode \in ModeInputs
  /\ rgba \in UploadBuffers
  /\ bChunks = <<>> /\ rChunks = <<>> /\ i = 0 /\ wire = <<>> /\ error = NoError
  /\ QuantIdle
  /\ HelperIdle

Next ==
  \/ uploadImageBuffer
  \/ postTextOk
  \/ postTextNotOk
  \/ fetchRejects
  \/ deviceSilent

Spec == Init /\ [][Next]_vars

\* Once a request is out, the device makes one of its choices for it and the
\* event loop runs the continuation that this makes ready.
Answered == postTextOk \/ postTextNotOk \/ fetchRejects \/ deviceSilent

FairSpec == Spec /\ WF_vars(Answered)

(***************************************************************************)
(* makePlanes on its own, called as uploadImageBuffer calls it.            *)
(***************************************************************************)
Grey == <<128, 128, 128, 255>>

ProbeColours ==
  {<<0, 0, 0>>, <<255, 255, 255>>, <<255, 0, 0>>, <<220, 180, 0>>,
   <<0, 0, 1>>, <<1, 0, 0>>, <<254, 0, 0>>, <<255, 0, 1>>, <<220, 180, 1>>,
   <<255, 255, 254>>, <<127, 127, 127>>}
ProbeAlphas == {0, 1, 255}

\* the image that is bg everywhere except pixel number at (from 0), which is px
Probe(bg, px, at) == Image([p \in 1..(WIDTH * HEIGHT) |-> IF p = at + 1 THEN px ELSE bg])

ProbePositions == {0, WIDTH - 1, WIDTH * HEIGHT - 1}

PlaneBuffers ==
  {Probe(bg, c \o <<a>>, at) :
     bg \in {White, Black, Red}, c \in ProbeColours, a \in ProbeAlphas, at \in ProbePositions}
    \cup {Striped, TooShort, TooLong}

callMakePlanes ==
  /\ pc = "input"
  /\ out' = makePlanes(rgba, model, IF mode = Undefined THEN 2 ELSE mode)
  /\ pc' = "planes"
  /\ UNCHANGED <<model, mode, rgba, pal, dy, dx, errA, errB>>
  /\ UNCHANGED uploadVars
  /\ UNCHANGED helperVars

UploadIdle ==
  /\ bChunks = <<>> /\ rChunks = <<>> /\ i = 0 /\ wire = <<>> /\ error = NoError

PlanesInit ==
  /\ pc = "input"
  /\ model \in {m \in ModelInputs : ModelTruthy(m)}
  /\ mode \in ModeInputs
  /\ rgba \in PlaneBuffers
  /\ UploadIdle
  /\ QuantIdle
  /\ HelperIdle

PlanesNext == callMakePlanes

SpecPlanes == PlanesInit /\ [][PlanesNext]_vars

(***************************************************************************)
(* Numbers with a fraction.  The dither path adds k/32 of an error to an   *)
(* accumulator, so its numbers are multiples of powers of 1/32.  A number  *)
(* is <<n, d1, ..., dm>>: the integer n = floor(value) followed by base-32 *)
(* fraction digits 0..31, the last one not 0; an integer is <<n>>.  Sums,  *)
(* differences and squares are exact; a quotient by 32 keeps FracDigits    *)
(* fraction digits and drops what falls below (a double keeps 53           *)
(* significant bits and rounds there).                                     *)
(***************************************************************************)
FracDigits == 6

Num(n) == <<n>>

Digit(a, j) == IF j <= Len(a) THEN a[j] ELSE 0
Longer(a, b) == IF Len(a) >= Len(b) THEN Len(a) ELSE Len(b)

RECURSIVE Trim(_)
Trim(v) == IF Len(v) > 1 /\ v[Len(v)] = 0 THEN Trim(SubSeq(v, 1, Len(v) - 1)) ELSE v

RECURSIVE Carry(_, _, _)
Carry(v, j, c) ==
  IF j = 1 THEN <<v[1] + c>>
  ELSE Append(Carry(v, j - 1, (v[j] + c) \div 32), (v[j] + c) % 32)

Norm(v) == Trim(Carry(v, Len(v), 0))

Plus(a, b) == Norm([j \in 1..Longer(a, b) |-> Digit(a, j) + Digit(b, j)])
Minus(a, b) == Norm([j \in 1..Longer(a, b) |-> Digit(a, j) - Digit(b, j)])

\* a * k for an integer k
Times(a, k) == Norm([j \in 1..Len(a) |-> a[j] * k])

\* a / 32
Over32(a) ==
  LET len == IF Len(a) + 1 <= FracDigits + 1 THEN Len(a) + 1 ELSE FracDigits + 1
  IN  Trim([j \in 1..len |->
              IF j = 1 THEN a[1] \div 32 ELSE IF j = 2 THEN a[1] % 32 ELSE a[j - 1]])

\* a * a
RECURSIVE SquareSum(_, _, _)
SquareSum(a, m, p) ==
  IF p > m \/ p > Len(a) THEN 0
  ELSE (IF m + 1 - p <= Len(a) THEN a[p] * a[m + 1 - p] ELSE 0) + SquareSum(a, m, p + 1)

Square(a) == Norm([m \in 1..(2 * Len(a) - 1) |-> SquareSum(a, m, 1)])

\* Number.POSITIVE_INFINITY
Infinity == <<>>

RECURSIVE LessFrom(_, _, _)
LessFrom(a, b, j) ==
  IF j > Longer(a, b) THEN FALSE
  ELSE IF Digit(a, j) # Digit(b, j) THEN Digit(a, j) < Digit(b, j)
  ELSE LessFrom(a, b, j + 1)

\* a < b
Less(a, b) == IF b = Infinity THEN a # Infinity ELSE LessFrom(a, b, 1)

(***************************************************************************)
(* Palettes                                                                *)
(***************************************************************************)
PAL_ARR ==
  << <<<<0, 0, 0>>, <<255, 255, 255>>>>,
     <<<<0, 0, 0>>, <<255, 255, 255>>, <<255, 0, 0>>>>,
     <<<<0, 0, 0>>, <<255, 255, 255>>, <<127, 127, 127>>>>,
     <<<<0, 0, 0>>, <<255, 255, 255>>, <<127, 127, 127>>, <<127, 0, 0>>>>,
     <<<<0, 0, 0>>, <<255, 255, 255>>>>,
     <<<<0, 0, 0>>, <<255, 255, 255>>, <<220, 180, 0>>>> >>

basePalIndFor(m) ==
  IF m = "12.48inch e-Paper" THEN 0
  ELSE IF m = "12.48inch e-Paper (B)" THEN 1
  ELSE 5

\* the model's base palette whatever the mode
paletteForModeNeverStrips(m, md) == PAL_ARR[basePalIndFor(m) + 1]

\* PAL_ARR[palInd], palInd counted from 0; palInd &= 0xFE clears the low bit
paletteForMode(m, md) ==
  LET base == basePalIndFor(m)
      isRed == md % 2 = 1
      palInd == IF ~isRed THEN base - (base % 2) ELSE base
  IN  PAL_ARR[palInd + 1]

(***************************************************************************)
(* nearestIdx: the index (from 0) of the palette entry nearest to (r,g,b)  *)
(***************************************************************************)
\* the loop taking an entry that is as near as the best so far (d <= best)
RECURSIVE NearestLoopLastWins(_, _, _, _, _, _, _)
NearestLoopLastWins(r, g, b, pl, k, idx, best) ==
  IF k >= Len(pl) THEN idx
  ELSE LET dr == Minus(r, Num(pl[k + 1][1]))
           dg == Minus(g, Num(pl[k + 1][2]))
           db == Minus(b, Num(pl[k + 1][3]))
           d == Plus(Plus(Square(dr), Square(dg)), Square(db))
       IN  IF ~Less(best, d) THEN NearestLoopLastWins(r, g, b, pl, k + 1, k, d)
           ELSE NearestLoopLastWins(r, g, b, pl, k + 1, idx, best)

RECURSIVE NearestLoop(_, _, _, _, _, _, _)
NearestLoop(r, g, b, pl, k, idx, best) ==
  IF k >= Len(pl) THEN idx
  ELSE LET dr == Minus(r, Num(pl[k + 1][1]))
           dg == Minus(g, Num(pl[k + 1][2]))
           db == Minus(b, Num(pl[k + 1][3]))
           d == Plus(Plus(Square(dr), Square(dg)), Square(db))
       IN  IF Less(d, best) THEN NearestLoop(r, g, b, pl, k + 1, k, d)
           ELSE NearestLoop(r, g, b, pl, k + 1, idx, best)

nearestIdx(r, g, b, pl) == NearestLoop(r, g, b, pl, 0, 0, Infinity)

(***************************************************************************)
(* quantizeLevelWeb                                                        *)
(***************************************************************************)
\* the pixel write without its alpha byte
WritePixelNoAlpha(o, k, c) ==
  [o EXCEPT ![k + 1] = c[1], ![k + 2] = c[2], ![k + 3] = c[3]]

\* out[i]=rr; out[i+1]=gg; out[i+2]=bb; out[i+3]=255   (i counted from 0)
WritePixel(o, k, c) ==
  [o EXCEPT ![k + 1] = c[1], ![k + 2] = c[2], ![k + 3] = c[3], ![k + 4] = 255]

\* the loop body's palette entry for pixel number p (from 0)
LevelPixel(buf, pl, p) ==
  pl[nearestIdx(Num(At(buf, 4 * p)), Num(At(buf, 4 * p + 1)), Num(At(buf, 4 * p + 2)), pl) + 1]

\* the two for loops; writes into an empty typed array do nothing
RECURSIVE LevelLoop(_, _, _, _)
LevelLoop(buf, pl, p, o) ==
  IF p >= WIDTH * HEIGHT \/ Len(o) = 0 THEN o
  ELSE LevelLoop(buf, pl, p + 1, WritePixel(o, 4 * p, LevelPixel(buf, pl, p)))

quantizeLevelWeb(buf, pl) == LevelLoop(buf, pl, 0, [k \in 1..Len(buf) |-> 0])

(***************************************************************************)
(* quantizeDitherWeb, one loop iteration a step                            *)
(***************************************************************************)
Zero3 == <<Num(0), Num(0), Num(0)>>
ZeroRow == [x \in 1..WIDTH |-> Zero3]

\* add(row[x], er, eg, eb, k): row[x] += e * (k/32), x counted from 0
add(row, x, e, k) ==
  [row EXCEPT ![x + 1] = <<Plus(@[1], Over32(Times(e[1], k))),
                           Plus(@[2], Over32(Times(e[2], k))),
                           Plus(@[3], Over32(Times(e[3], k)))>>]

\* the left edge giving 2/32 to the right neighbour and 7/32 to the pixel below it
DiffuseLeftEdgeSwapped(x, e, rowA, rowB) ==
  IF x = 0
  THEN [errB |-> IF x + 1 < WIDTH THEN add(add(rowB, x, e, 7), x + 1, e, 7)
                 ELSE add(rowB, x, e, 7),
        errA |-> IF x + 1 < WIDTH THEN add(rowA, x + 1, e, 2) ELSE rowA]
  ELSE IF x = WIDTH - 1
  THEN [errB |-> add(add(rowB, x - 1, e, 7), x, e, 9),
        errA |-> rowA]
  ELSE [errB |-> add(add(add(rowB, x - 1, e, 3), x, e, 5), x + 1, e, 1),
        errA |-> add(rowA, x + 1, e, 7)]

\* the right edge handled like an interior pixel whose right neighbours are missing
DiffuseRightEdgeAsInterior(x, e, rowA, rowB) ==
  IF x = 0
  THEN [errB |-> IF x + 1 < WIDTH THEN add(add(rowB, x, e, 7), x + 1, e, 2)
                 ELSE add(rowB, x, e, 7),
        errA |-> IF x + 1 < WIDTH THEN add(rowA, x + 1, e, 7) ELSE rowA]
  ELSE IF x = WIDTH - 1
  THEN [errB |-> add(add(rowB, x - 1, e, 3), x, e, 5),
        errA |-> rowA]
  ELSE [errB |-> add(add(add(rowB, x - 1, e, 3), x, e, 5), x + 1, e, 1),
        errA |-> add(rowA, x + 1, e, 7)]

\* the if / else if / else that spreads the error e of the pixel in column x
Diffuse(x, e, rowA, rowB) ==
  IF x = 0
  THEN [errB |-> IF x + 1 < WIDTH THEN add(add(rowB, x, e, 7), x + 1, e, 2)
                 ELSE add(rowB, x, e, 7),
        errA |-> IF x + 1 < WIDTH THEN add(rowA, x + 1, e, 7) ELSE rowA]
  ELSE IF x = WIDTH - 1
  THEN [errB |-> add(add(rowB, x - 1, e, 7), x, e, 9),
        errA |-> rowA]
  ELSE [errB |-> add(add(add(rowB, x - 1, e, 3), x, e, 5), x + 1, e, 1),
        errA |-> add(rowA, x + 1, e, 7)]

\* loadAndRasterize: isLvl = (mode & 0x02) === 0
IsLvl(md) == (md \div 2) % 2 = 0

\* quantizeLevelWeb writing its result over the source buffer
rasterizeLevelInPlace ==
  /\ pc = "input"
  /\ IsLvl(mode)
  /\ pal' = paletteForMode(model, mode)
  /\ out' = quantizeLevelWeb(rgba, paletteForMode(model, mode))
  /\ rgba' = out'
  /\ pc' = "quantized"
  /\ UNCHANGED <<model, mode, dy, dx, errA, errB>>
  /\ UNCHANGED uploadVars
  /\ UNCHANGED helperVars

\* loadAndRasterize with a level mode: quantizeLevelWeb(src, pal)
rasterizeLevel ==
  /\ pc = "input"
  /\ IsLvl(mode)
  /\ pal' = paletteForMode(model, mode)
  /\ out' = quantizeLevelWeb(rgba, paletteForMode(model, mode))
  /\ pc' = "quantized"
  /\ UNCHANGED <<model, mode, rgba, dy, dx, errA, errB>>
  /\ UNCHANGED uploadVars
  /\ UNCHANGED helperVars

\* the two error rows kept at module level: created once, never cleared by a call
rasterizeDitherKeepsRows ==
  /\ pc = "input"
  /\ ~IsLvl(mode)
  /\ pal' = paletteForMode(model, mode)
  /\ out' = [k \in 1..Len(rgba) |-> 0]
  /\ errA' = (IF errA = <<>> THEN ZeroRow ELSE errA)
  /\ errB' = (IF errB = <<>> THEN ZeroRow ELSE errB)
  /\ dy' = 0
  /\ dx' = 0
  /\ pc' = "row"
  /\ UNCHANGED <<model, mode, rgba>>
  /\ UNCHANGED uploadVars
  /\ UNCHANGED helperVars

\* loadAndRasterize with a dither mode: quantizeDitherWeb(src, pal) up to its loop
rasterizeDither ==
  /\ pc = "input"
  /\ ~IsLvl(mode)
  /\ pal' = paletteForMode(model, mode)
  /\ out' = [k \in 1..Len(rgba) |-> 0]
  /\ errA' = ZeroRow
  /\ errB' = ZeroRow
  /\ dy' = 0
  /\ dx' = 0
  /\ pc' = "row"
  /\ UNCHANGED <<model, mode, rgba>>
  /\ UNCHANGED uploadVars
  /\ UNCHANGED helperVars

\* for (y...): the row swap a <- b, clear b; or the end of the loop and return out
ditherRow ==
  /\ pc = "row"
  /\ IF dy < HEIGHT
     THEN /\ errA' = errB
          /\ errB' = ZeroRow
          /\ dx' = 0
          /\ pc' = "pixel"
     ELSE /\ pc' = "quantized"
          /\ UNCHANGED <<errA, errB, dx>>
  /\ UNCHANGED <<model, mode, rgba, pal, out, dy>>
  /\ UNCHANGED uploadVars
  /\ UNCHANGED helperVars

\* for (x...): one pixel
ditherPixel ==
  /\ pc = "pixel"
  /\ \E r \in {Plus(Num(At(rgba, (dy * WIDTH + dx) * 4)), errA[dx + 1][1])},
        g \in {Plus(Num(At(rgba, (dy * WIDTH + dx) * 4 + 1)), errA[dx + 1][2])},
        b \in {Plus(Num(At(rgba, (dy * WIDTH + dx) * 4 + 2)), errA[dx + 1][3])} :
       \E c \in {pal[nearestIdx(r, g, b, pal) + 1]} :
         \E spread \in {Diffuse(dx, <<Minus(r, Num(c[1])), Minus(g, Num(c[2])),
                                      Minus(b, Num(c[3]))>>, errA, errB)} :
           /\ out' = WritePixel(out, (dy * WIDTH + dx) * 4, c)
           /\ errA' = spread.errA
           /\ errB' = spread.errB
  /\ IF dx + 1 < WIDTH
     THEN dx' = dx + 1 /\ UNCHANGED <<dy, pc>>
     ELSE dx' = 0 /\ dy' = dy + 1 /\ pc' = "row"
  /\ UNCHANGED <<model, mode, rgba, pal>>
  /\ UNCHANGED uploadVars
  /\ UNCHANGED helperVars

\* input pixels for the quantizers: palette colours, mid-tones, and colours at
\* equal distance from two palette entries
QuantColours ==
  {<<0, 0, 0>>, <<255, 255, 255>>, <<255, 0, 0>>, <<220, 180, 0>>,
   <<128, 128, 128>>, <<255, 255, 0>>, <<110, 90, 0>>, <<200, 60, 40>>}

QuantPixels == {c \o <<255>> : c \in QuantColours} \cup {<<255, 130, 125, 0>>, <<90, 90, 90, 7>>}

LevelBuffers ==
  {Probe(bg, px, at) : bg \in {White, Grey}, px \in QuantPixels, at \in {0, WIDTH - 1}}
    \cup {Striped}

DitherBuffers ==
  {Uniform(Grey), Striped, Probe(White, Red, 0), Probe(Grey, Yellow, WIDTH - 1),
   Probe(White, <<200, 60, 40, 255>>, 0), Probe(Grey, <<255, 255, 0, 255>>, 0),
   Uniform(<<255, 130, 125, 0>>), Uniform(Black), Probe(White, <<110, 90, 0, 255>>, WIDTH)}

QuantInit ==
  /\ pc = "input"
  /\ model \in DOMAIN MODELS
  /\ mode \in 0..3
  /\ rgba \in (IF IsLvl(mode) THEN LevelBuffers ELSE DitherBuffers)
  /\ UploadIdle
  /\ QuantIdle
  /\ HelperIdle

QuantNext ==
  \/ rasterizeLevel
  \/ rasterizeDither
  \/ ditherRow
  \/ ditherPixel

SpecQuant == QuantInit /\ [][QuantNext]_vars

(***************************************************************************)
(* One process quantizing several images in turn: quantizeDitherWeb is     *)
(* called again after it returned, on the same or on another buffer.       *)
(***************************************************************************)
MaxCalls == 3

RepeatBuffers == {Uniform(Grey), Probe(White, <<200, 60, 40, 255>>, 0)}

\* the call returned; the caller keeps its result and calls again
nextCall ==
  /\ pc = "quantized"
  /\ Len(calls) + 1 < MaxCalls
  /\ calls' = Append(calls, [rgba |-> rgba, pal |-> pal, out |-> out])
  /\ rgba' \in RepeatBuffers
  /\ pc' = "input"
  /\ UNCHANGED <<model, mode, arg, overlapVars, runVars, fetches>>
  /\ UNCHANGED quantVars
  /\ UNCHANGED uploadVars

RepeatInit ==
  /\ pc = "input"
  /\ model \in {MODEL_B, MODEL_C}
  /\ mode \in {2, 3}
  /\ rgba \in RepeatBuffers
  /\ UploadIdle
  /\ QuantIdle
  /\ HelperIdle

RepeatNext ==
  \/ rasterizeDither
  \/ ditherRow
  \/ ditherPixel
  \/ nextCall

SpecRepeat == RepeatInit /\ [][RepeatNext]_vars

(***************************************************************************)
(* packToChars, reorderFor1248 and chunk, each called on its own.          *)
(***************************************************************************)
MaxBits == 6
MaxStr == 12

\* every array of at most MaxBits bits
BitArrays == UNION {[1..n -> {0, 1}] : n \in 0..MaxBits}

\* the string of n different characters 'a', 'b', 'c', ...
Labelled(n) == [k \in 1..n |-> 96 + k]

\* the panel-sized string of 'a' with character c at position pos (from 1)
Marked(pos, c) == [k \in 1..(XSTR * HEIGHT) |-> IF k = pos THEN c ELSE 97]

\* strings of the panel's length, and strings of other lengths
Streams ==
  {Marked(pos, c) : pos \in 1..(XSTR * HEIGHT), c \in {98, 112}}
    \cup {Labelled(XSTR * HEIGHT)}
    \cup {Labelled(n) : n \in {0, 1, XSTR * HEIGHT - XSTR, XSTR * HEIGHT - 1,
                               XSTR * HEIGHT + 1, XSTR * HEIGHT + XSTR}}

ChunkStrings == {Labelled(n) : n \in 0..MaxStr}

callPackToChars ==
  /\ pc = "bits"
  /\ out' = packToChars(arg)
  /\ pc' = "packed"
  /\ UNCHANGED <<model, mode, rgba, pal, dy, dx, errA, errB>>
  /\ UNCHANGED uploadVars
  /\ UNCHANGED helperVars

callReorderFor1248 ==
  /\ pc = "msg"
  /\ out' = reorderFor1248(arg)
  /\ pc' = "reordered"
  /\ UNCHANGED <<model, mode, rgba, pal, dy, dx, errA, errB>>
  /\ UNCHANGED uploadVars
  /\ UNCHANGED helperVars

callChunk ==
  /\ pc = "str"
  /\ out' = chunk(arg, CHUNK_SIZE)
  /\ pc' = "chunked"
  /\ UNCHANGED <<model, mode, rgba, pal, dy, dx, errA, errB>>
  /\ UNCHANGED uploadVars
  /\ UNCHANGED helperVars

HelpersInit ==
  /\ \/ pc = "bits" /\ arg \in BitArrays
     \/ pc = "msg" /\ arg \in Streams
     \/ pc = "str" /\ arg \in ChunkStrings
  /\ model = MONO /\ mode = Undefined /\ rgba = <<>>
  /\ calls = <<>> /\ fetches = <<>>
  /\ OverlapIdle
  /\ RunIdle
  /\ UploadIdle
  /\ QuantIdle

HelpersNext ==
  \/ callPackToChars
  \/ callReorderFor1248
  \/ callChunk

SpecHelpers == HelpersInit /\ [][HelpersNext]_vars

(***************************************************************************)
(* snapToPaletteRGBA of run.ts: the flat palette snap run() applies to the *)
(* rendered board before the upload.                                       *)
(***************************************************************************)
SnapWidth == 2
SnapHeight == 1

\* the TriColor value false
TriColorOff == "false"

SnapPal(triColor) ==
  IF triColor = "red" THEN << <<0, 0, 0>>, <<255, 255, 255>>, <<255, 0, 0>> >>
  ELSE IF triColor = "yellow" THEN << <<0, 0, 0>>, <<255, 255, 255>>, <<220, 180, 0>> >>
  ELSE << <<0, 0, 0>>, <<255, 255, 255>> >>

NEAR_BLACK == 24
NEAR_WHITE == 232

\* not-a-number, and the initial bestD 1e12 (above every distance of two colours)
NaN == -2
BestD0 == -3

\* dr*dr + dg*dg + db*db for the palette entry e
SnapD(r, g, b, e) ==
  IF r = Undefined \/ g = Undefined \/ b = Undefined THEN NaN
  ELSE (r - e[1]) * (r - e[1]) + (g - e[2]) * (g - e[2]) + (b - e[3]) * (b - e[3])

\* d < bestD
SnapLess(d, bestD) == d # NaN /\ (bestD = BestD0 \/ d < bestD)

\* the search with < replaced by <=
RECURSIVE SnapNearestLastWins(_, _, _, _, _, _, _)
SnapNearestLastWins(r, g, b, p, k, bestIdx, bestD) ==
  IF k >= Len(p) THEN bestIdx
  ELSE LET d == SnapD(r, g, b, p[k + 1])
       IN  IF d # NaN /\ (bestD = BestD0 \/ d <= bestD)
           THEN SnapNearestLastWins(r, g, b, p, k + 1, k, d)
           ELSE SnapNearestLastWins(r, g, b, p, k + 1, bestIdx, bestD)

\* for (k = 0; k < pal.length; k++) if (d < bestD) { bestD = d; bestIdx = k }
RECURSIVE SnapNearest(_, _, _, _, _, _, _)
SnapNearest(r, g, b, p, k, bestIdx, bestD) ==
  IF k >= Len(p) THEN bestIdx
  ELSE LET d == SnapD(r, g, b, p[k + 1])
       IN  IF SnapLess(d, bestD)
           THEN SnapNearest(r, g, b, p, k + 1, k, d)
           ELSE SnapNearest(r, g, b, p, k + 1, bestIdx, bestD)

\* the colour one pass of the loop body writes
SnapPixel(r, g, b, a, p) ==
  IF a # Undefined /\ a < 128 THEN <<255, 255, 255>>
  ELSE IF r = g /\ g = b /\ r # Undefined /\ r <= NEAR_BLACK THEN <<0, 0, 0>>
  ELSE IF r = g /\ g = b /\ r # Undefined /\ r >= NEAR_WHITE THEN <<255, 255, 255>>
  ELSE p[SnapNearest(r, g, b, p, 0, 0, BestD0) + 1]

\* for (let p = 0, i = 0; p < npx; p++, i += 4); writes into an empty typed
\* array do nothing
RECURSIVE SnapLoop(_, _, _, _, _)
SnapLoop(src, p, px, npx, o) ==
  IF px >= npx \/ Len(o) = 0 THEN o
  ELSE LET c == SnapPixel(At(src, 4 * px), At(src, 4 * px + 1), At(src, 4 * px + 2),
                          At(src, 4 * px + 3), p)
       IN  SnapLoop(src, p, px + 1, npx,
                    IF 4 * px + 4 <= Len(o) THEN WritePixel(o, 4 * px, c) ELSE o)

snapToPaletteRGBA(src, width, height, triColor) ==
  SnapLoop(src, SnapPal(triColor), 0, width * height, [k \in 1..Len(src) |-> 0])

\* the grey levels around the two fast-path thresholds, and some between
SnapGreys == (0..(NEAR_BLACK + 1)) \cup ((NEAR_WHITE - 1)..255) \cup {100, 127, 128}

SnapColours ==
  {<<g, g, g>> : g \in SnapGreys}
    \cup {<<255, 0, 0>>, <<220, 180, 0>>, <<255, 0, 255>>, <<200, 30, 30>>, <<128, 0, 0>>,
          <<127, 0, 0>>, <<238, 218, 128>>, <<110, 90, 0>>, <<24, 24, 25>>, <<232, 232, 231>>}
SnapAlphas == {0, 127, 128, 255}

\* width * height pixels, all bg except pixel number at (from 0)
SnapImage(bg, px, at) ==
  Image([q \in 1..(SnapWidth * SnapHeight) |-> IF q = at + 1 THEN px ELSE bg])

SnapBuffers ==
  {SnapImage(bg, c \o <<a>>, at) :
     bg \in {Black, <<90, 90, 90, 255>>}, c \in SnapColours, a \in SnapAlphas,
     at \in {0, SnapWidth * SnapHeight - 1}}

\* the sizes passed with a buffer: its own, and one column less
SnapSizes ==
  {[width |-> w, height |-> SnapHeight, triColor |-> t] :
     w \in {SnapWidth, SnapWidth - 1}, t \in {TriColorOff, "red", "yellow"}}

callSnapToPaletteRGBA ==
  /\ pc = "raw"
  /\ out' = snapToPaletteRGBA(rgba, arg.width, arg.height, arg.triColor)
  /\ pc' = "snapped"
  /\ UNCHANGED <<model, mode, rgba, pal, dy, dx, errA, errB>>
  /\ UNCHANGED uploadVars
  /\ UNCHANGED helperVars

SnapInit ==
  /\ pc = "raw"
  /\ rgba \in SnapBuffers
  /\ arg \in SnapSizes
  /\ model = MONO /\ mode = Undefined
  /\ calls = <<>> /\ fetches = <<>>
  /\ OverlapIdle
  /\ RunIdle
  /\ UploadIdle
  /\ QuantIdle

SnapNext == callSnapToPaletteRGBA

SpecSnap == SnapInit /\ [][SnapNext]_vars

(***************************************************************************)
(* The pipeline's stages side by side, each called on a caller's buffer:   *)
(* the two quantizers, makePlanes, snapToPaletteRGBA and a whole           *)
(* uploadImageBuffer call.                                                 *)
(***************************************************************************)
StagesInit ==
  \/ /\ Init
     /\ model \in {MONO, MODEL_B}
     /\ rgba = Striped
  \/ /\ pc = "input"
     /\ model \in DOMAIN MODELS
     /\ mode \in 0..3
     /\ rgba \in {Striped, Uniform(Grey)}
     /\ UploadIdle
     /\ QuantIdle
     /\ HelperIdle
  \/ SnapInit

StagesNext ==
  \/ Next
  \/ QuantNext
  \/ callMakePlanes
  \/ SnapNext

SpecStages == StagesInit /\ [][StagesNext]_vars

(***************************************************************************)
(* Two uploadImageBuffer calls against one ip whose lifetimes overlap.     *)
(* Each call has its own locals; the device sees one stream of requests.   *)
(***************************************************************************)
Callers == {1, 2}

Arrival(c, path, body) == [from |-> c, path |-> path, body |-> body]

\* bChunks and rChunks kept at module level: a call's chunks replace every call's
uploadImageBufferBySharingChunks(c) ==
  /\ pc = "overlap"
  /\ sessions[c].pc = "call"
  /\ LET s == sessions[c]
         colorFlag == ColorOf(s.model)
         planes == makePlanes(s.rgba, s.model, s.mode)
         bOrdered == reorderFor1248(packToChars(planes.blackBits))
         rOrdered == IF Truthy(colorFlag) THEN reorderFor1248(packToChars(planes.ryBits))
                     ELSE [threw |-> FALSE, value |-> <<>>]
         bC == chunk(bOrdered.value, CHUNK_SIZE)
         rC == IF Truthy(colorFlag) THEN chunk(rOrdered.value, CHUNK_SIZE) ELSE <<>>
     IN  /\ sessions' = [d \in Callers |->
                           IF d = c
                           THEN [s EXCEPT !.pc = "await", !.path = "EPD",
                                          !.bChunks = bC, !.rChunks = rC]
                           ELSE [sessions[d] EXCEPT !.bChunks = bC, !.rChunks = rC]]
         /\ device' = Append(device, Arrival(c, "EPD", s.model))
  /\ UNCHANGED <<pc, model, mode, rgba, arg, calls, runVars, fetches>>
  /\ UNCHANGED uploadVars
  /\ UNCHANGED quantVars

\* call c runs to its first await: planes, packing, reordering, chunks, POST /EPD
uploadImageBufferBy(c) ==
  /\ pc = "overlap"
  /\ sessions[c].pc = "call"
  /\ LET s == sessions[c]
         colorFlag == ColorOf(s.model)
         planes == makePlanes(s.rgba, s.model, s.mode)
         bOrdered == reorderFor1248(packToChars(planes.blackBits))
         rOrdered == IF Truthy(colorFlag) THEN reorderFor1248(packToChars(planes.ryBits))
                     ELSE [threw |-> FALSE, value |-> <<>>]
     IN  /\ sessions' =
              [sessions EXCEPT ![c] =
                 [s EXCEPT !.pc = "await", !.path = "EPD",
                           !.bChunks = chunk(bOrdered.value, CHUNK_SIZE),
                           !.rChunks = IF Truthy(colorFlag)
                                       THEN chunk(rOrdered.value, CHUNK_SIZE) ELSE <<>>]]
         /\ device' = Append(device, Arrival(c, "EPD", s.model))
  /\ UNCHANGED <<pc, model, mode, rgba, arg, calls, runVars, fetches>>
  /\ UNCHANGED uploadVars
  /\ UNCHANGED quantVars

\* the request call c awaits is answered with success: its next request goes out
postTextOkBy(c) ==
  /\ pc = "overlap"
  /\ sessions[c].pc = "await"
  /\ LET s == sessions[c]
         nxt == AfterReturn(s.path, s.i, s.model, s.bChunks, s.rChunks)
     IN  IF nxt.path = "return"
         THEN /\ sessions' = [sessions EXCEPT ![c] = [s EXCEPT !.pc = "done"]]
              /\ UNCHANGED device
         ELSE /\ sessions' = [sessions EXCEPT ![c] = [s EXCEPT !.path = nxt.path, !.i = nxt.i]]
              /\ device' = Append(device, Arrival(c, nxt.path, nxt.body))
  /\ UNCHANGED <<pc, model, mode, rgba, arg, calls, runVars, fetches>>
  /\ UNCHANGED uploadVars
  /\ UNCHANGED quantVars

\* the request call c awaits fails (non-success response or rejected fetch)
postTextFailsBy(c) ==
  /\ pc = "overlap"
  /\ sessions[c].pc = "await"
  /\ sessions' = [sessions EXCEPT ![c] = [@ EXCEPT !.pc = "rejected"]]
  /\ UNCHANGED <<pc, model, mode, rgba, arg, calls, device, runVars, fetches>>
  /\ UNCHANGED uploadVars
  /\ UNCHANGED quantVars

Session(m, buf) ==
  [pc |-> "call", model |-> m, mode |-> 2, rgba |-> buf,
   bChunks |-> <<>>, rChunks |-> <<>>, i |-> 0, path |-> ""]

\* the arguments the two calls are made with: call 1 with one of the first two
OverlapArgs ==
  << [model |-> MODEL_B, rgba |-> Striped],
     [model |-> MONO, rgba |-> Striped],
     [model |-> MONO, rgba |-> Uniform(Black)] >>

OverlapInit ==
  /\ pc = "overlap"
  /\ \E first \in {1, 2} :
       sessions = [c \in Callers |->
                     IF c = 1 THEN Session(OverlapArgs[first].model, OverlapArgs[first].rgba)
                     ELSE Session(OverlapArgs[3].model, OverlapArgs[3].rgba)]
  /\ device = <<>>
  /\ model = MONO /\ mode = Undefined /\ rgba = <<>>
  /\ arg = <<>> /\ calls = <<>> /\ fetches = <<>>
  /\ RunIdle
  /\ UploadIdle
  /\ QuantIdle

OverlapNext ==
  \E c \in Callers :
    \/ uploadImageBufferBy(c)
    \/ postTextOkBy(c)
    \/ postTextFailsBy(c)

SpecOverlap == OverlapInit /\ [][OverlapNext]_vars

(***************************************************************************)
(* run() of run.ts: the daily job.  The collaborators (calendar, weather,  *)
(* headlines, renderer, PNG decoder) either return or throw; the upload at *)
(* the end is the uploadImageBuffer call modelled above.                   *)
(***************************************************************************)
\* process.env.X of a variable that is not set (or set to the empty string)
Unset == ""

\* parseFloat on the strings the environment is given here
parseFloat(s) ==
  CASE s = "0" -> 0
    [] s = "0.0" -> 0
    [] s = "46" -> 46
    [] s = "-111" -> -111
    [] OTHER -> NaN

\* parseInt(process.env.EPD_MODE || "1")
parseInt(s) ==
  CASE s = "0" -> 0
    [] s = "1" -> 1
    [] s = "2" -> 2
    [] s = "3" -> 3
    [] OTHER -> NaN

\* !x for a number
NotNumber(x) == x = 0 \/ x = NaN

\* !lat || !lon || isNaN(lat) || isNaN(lon)
CoordinatesRejected(lat, lon) ==
  NotNumber(lat) \/ NotNumber(lon) \/ lat = NaN \/ lon = NaN

Thrown(message) == [NoError EXCEPT !.kind = message]

\* the sharp-decoded pixels of the rendered board
RenderedBoards == {Striped, Uniform(Grey)}

Environments ==
  [ICS_URL : {Unset, "https://calendar/basic.ics"},
   WEATHER_LAT : {Unset, "north", "0", "46"},
   WEATHER_LON : {Unset, "0.0", "-111"},
   EPD_IP : {Unset, "192.168.1.50"},
   EPD_MODEL : {Unset, MONO},
   EPD_MODE : {Unset, "2"}]

\* run() up to its first await
runBegins ==
  /\ pc = "run"
  /\ IF env.ICS_URL = Unset
     THEN /\ pc' = "exit"
          /\ error' = Thrown("ICS_URL environment variable is required")
          /\ UNCHANGED steps
     ELSE /\ pc' = "loadIcsForDay"
          /\ steps' = Append(steps, "loadIcsForDay")
          /\ UNCHANGED error
  /\ UNCHANGED <<model, mode, rgba, bChunks, rChunks, i, wire>>
  /\ UNCHANGED <<arg, calls, overlapVars, env, fetches>>
  /\ UNCHANGED quantVars

\* the awaited collaborator rejects: run() rejects, the process exits with 1
stepThrows ==
  /\ pc \in {"loadIcsForDay", "fetchWeather", "fetchKBZKLocalHeadlines",
             "renderDailyBoardPNG", "paletteLevelColorQuantizePNG"}
  /\ pc' = "exit"
  /\ error' = [NoError EXCEPT !.kind = "step failed", !.path = pc]
  /\ UNCHANGED <<model, mode, rgba, bChunks, rChunks, i, wire>>
  /\ UNCHANGED helperVars
  /\ UNCHANGED quantVars

\* loadIcsForDay returned: read and validate the coordinates, call fetchWeather
calendarLoaded ==
  /\ pc = "loadIcsForDay"
  /\ IF CoordinatesRejected(parseFloat(env.WEATHER_LAT), parseFloat(env.WEATHER_LON))
     THEN /\ pc' = "exit"
          /\ error' = Thrown("WEATHER_LAT and WEATHER_LON environment variables are required and must be valid numbers")
          /\ UNCHANGED steps
     ELSE /\ pc' = "fetchWeather"
          /\ steps' = Append(steps, "fetchWeather")
          /\ UNCHANGED error
  /\ UNCHANGED <<model, mode, rgba, bChunks, rChunks, i, wire>>
  /\ UNCHANGED <<arg, calls, overlapVars, env, fetches>>
  /\ UNCHANGED quantVars

weatherFetched ==
  /\ pc = "fetchWeather"
  /\ pc' = "fetchKBZKLocalHeadlines"
  /\ steps' = Append(steps, "fetchKBZKLocalHeadlines")
  /\ UNCHANGED <<model, mode, rgba, arg, calls, overlapVars, env, fetches>>
  /\ UNCHANGED uploadVars
  /\ UNCHANGED quantVars

headlinesFetched ==
  /\ pc = "fetchKBZKLocalHeadlines"
  /\ pc' = "renderDailyBoardPNG"
  /\ steps' = Append(steps, "renderDailyBoardPNG")
  /\ UNCHANGED <<model, mode, rgba, arg, calls, overlapVars, env, fetches>>
  /\ UNCHANGED uploadVars
  /\ UNCHANGED quantVars

\* renderDailyBoardPNG returned a PNG: hand it to paletteLevelColorQuantizePNG
boardRendered ==
  /\ pc = "renderDailyBoardPNG"
  /\ out' \in RenderedBoards
  /\ pc' = "paletteLevelColorQuantizePNG"
  /\ steps' = Append(steps, "paletteLevelColorQuantizePNG")
  /\ UNCHANGED <<model, mode, rgba, pal, dy, dx, errA, errB>>
  /\ UNCHANGED <<arg, calls, overlapVars, env, fetches>>
  /\ UNCHANGED uploadVars

\* the PNG is decoded and snapped with "red"; read the device settings and
\* call uploadImageBuffer
pngQuantized ==
  /\ pc = "paletteLevelColorQuantizePNG"
  /\ rgba' = snapToPaletteRGBA(out, WIDTH, HEIGHT, "red")
  /\ IF env.EPD_IP = Unset
     THEN /\ pc' = "exit"
          /\ error' = Thrown("EPD_IP environment variable is required")
          /\ UNCHANGED <<model, mode, steps>>
     ELSE /\ pc' = "call"
          /\ model' = (IF env.EPD_MODEL = Unset THEN MODEL_B ELSE env.EPD_MODEL)
          /\ mode' = parseInt(IF env.EPD_MODE = Unset THEN "1" ELSE env.EPD_MODE)
          /\ steps' = Append(steps, "uploadImageBuffer")
          /\ UNCHANGED error
  /\ UNCHANGED <<bChunks, rChunks, i, wire>>
  /\ UNCHANGED <<arg, calls, overlapVars, env, fetches>>
  /\ UNCHANGED quantVars

RunInit ==
  /\ pc = "run"
  /\ env \in Environments
  /\ steps = <<>>
  /\ model = MONO /\ mode = Undefined /\ rgba = <<>>
  /\ arg = <<>> /\ calls = <<>> /\ fetches = <<>>
  /\ OverlapIdle
  /\ UploadIdle
  /\ QuantIdle

RunNext ==
  \/ runBegins
  \/ stepThrows
  \/ calendarLoaded
  \/ weatherFetched
  \/ headlinesFetched
  \/ boardRendered
  \/ pngQuantized
  \/ Next

SpecRun == RunInit /\ [][RunNext]_vars

(***************************************************************************)
(* fetchKBZKLocalHeadlines of local-headlines.ts.  Titles and town names   *)
(* are sequences of characters; a link is the sequence of its path         *)
(* segments; a feed is the item list normalizeItems finds in the parsed    *)
(* document.                                                               *)
(***************************************************************************)
DEFAULT_URL_PRIMARY == "https://www.kbzk.com/news.rss"
DEFAULT_URL_FALLBACK == "https://www.kbzk.com/news/rss"
DEFAULT_EXCLUDES == <<>>
DEFAULT_MAX_ITEMS == 5

UpperChars == <<"A", "B", "C", "D", "E", "F", "G", "H", "I", "J", "K", "L", "M",
                "N", "O", "P", "Q", "R", "S", "T", "U", "V", "W", "X", "Y", "Z">>
LowerChars == <<"a", "b", "c", "d", "e", "f", "g", "h", "i", "j", "k", "l", "m",
                "n", "o", "p", "q", "r", "s", "t", "u", "v", "w", "x", "y", "z">>
DigitChars == <<"0", "1", "2", "3", "4", "5", "6", "7", "8", "9">>

\* c.toLowerCase() of one character
LowerChar(c) ==
  IF \E k \in 1..Len(UpperChars) : UpperChars[k] = c
  THEN LowerChars[CHOOSE k \in 1..Len(UpperChars) : UpperChars[k] = c]
  ELSE c

toLowerCase(s) == [k \in 1..Len(s) |-> LowerChar(s[k])]

\* \w
IsWordChar(c) ==
  \/ \E k \in 1..Len(UpperChars) : UpperChars[k] = c \/ LowerChars[k] = c
  \/ \E k \in 1..Len(DigitChars) : DigitChars[k] = c
  \/ c = "_"

\* \b between the characters number at and at + 1 of s (at from 0 to Len(s))
WordBoundary(s, at) ==
  (at >= 1 /\ IsWordChar(s[at])) # (at < Len(s) /\ IsWordChar(s[at + 1]))

\* the literal lit stands in s right after position at; ci: ignoring case
MatchAt(s, at, lit, ci) ==
  /\ at + Len(lit) <= Len(s)
  /\ \A k \in 1..Len(lit) :
       IF ci THEN LowerChar(s[at + k]) = LowerChar(lit[k]) ELSE s[at + k] = lit[k]

\* s.trim()
RECURSIVE TrimLeft(_)
TrimLeft(s) == IF s # <<>> /\ Head(s) = " " THEN TrimLeft(Tail(s)) ELSE s

RECURSIVE TrimRight(_)
TrimRight(s) ==
  IF s # <<>> /\ s[Len(s)] = " " THEN TrimRight(SubSeq(s, 1, Len(s) - 1)) ELSE s

trim(s) == TrimRight(TrimLeft(s))

\* s.replace(/lit/g, rep), with the i flag when ci
RECURSIVE ReplaceFrom(_, _, _, _, _, _)
ReplaceFrom(s, lit, rep, ci, at, acc) ==
  IF at >= Len(s) THEN acc
  ELSE IF MatchAt(s, at, lit, ci)
       THEN ReplaceFrom(s, lit, rep, ci, at + Len(lit), acc \o rep)
       ELSE ReplaceFrom(s, lit, rep, ci, at + 1, Append(acc, s[at + 1]))

Replace(s, lit, rep, ci) == ReplaceFrom(s, lit, rep, ci, 0, <<>>)

\* the entities deentitize decodes
AMP == <<"&", "a", "m", "p", ";">>
LT == <<"&", "l", "t", ";">>
GT == <<"&", "g", "t", ";">>
QUOT == <<"&", "q", "u", "o", "t", ";">>
APOS == <<"&", "#", "3", "9", ";">>
NBSP == <<"&", "n", "b", "s", "p", ";">>

deentitize(s) ==
  trim(Replace(Replace(Replace(Replace(Replace(Replace(s,
    AMP, <<"&">>, TRUE),
    LT, <<"<">>, TRUE),
    GT, <<">">>, TRUE),
    QUOT, <<"\"">>, TRUE),
    APOS, <<"'">>, FALSE),
    NBSP, <<" ">>, TRUE))

\* the alternatives of the regular expression: the escaped town names as
\* literals; join("|") of an empty list is the empty pattern, which matches
\* the empty string
TownAlternatives(excludes) ==
  IF excludes = <<>> THEN {<<>>} ELSE {excludes[k] : k \in 1..Len(excludes)}

\* new RegExp(`\\b(${excludes.map(escapeRegex).join("|")})\\b`, "i").test(title)
TownRegexTest(excludes, title) ==
  \E alt \in TownAlternatives(excludes), at \in 0..Len(title) :
    /\ WordBoundary(title, at)
    /\ MatchAt(title, at, alt, TRUE)
    /\ WordBoundary(title, at + Len(alt))

\* opts.excludeTowns ?? DEFAULT_EXCLUDES, trimmed, empty names dropped
Excludes(opts) ==
  LET given == IF "excludeTowns" \in DOMAIN opts THEN opts.excludeTowns ELSE DEFAULT_EXCLUDES
  IN  SelectSeq([k \in 1..Len(given) |-> trim(given[k])], LAMBDA s : s # <<>>)

UrlOf(opts) == IF "url" \in DOMAIN opts THEN opts.url ELSE DEFAULT_URL_PRIMARY
MaxItemsOf(opts) == IF "maxItems" \in DOMAIN opts THEN opts.maxItems ELSE DEFAULT_MAX_ITEMS

\* link.includes("/local-news/")
IsLocalNews(item) == \E k \in 1..Len(item.link) : item.link[k] = "local-news"

OnlyLocal(items) == SelectSeq(items, IsLocalNews)

TownFiltered(items, excludes) ==
  SelectSeq(OnlyLocal(items), LAMBDA it : ~TownRegexTest(excludes, it.title))

\* clean titles, dedupe by lower-cased title, cap
RECURSIVE TitlesFrom(_, _, _, _, _)
TitlesFrom(items, k, seen, titles, maxItems) ==
  IF k > Len(items) THEN titles
  ELSE LET raw == trim(items[k].title)
       IN  IF raw = <<>> \/ toLowerCase(raw) \in seen
           THEN TitlesFrom(items, k + 1, seen, titles, maxItems)
           ELSE IF Len(titles) + 1 >= maxItems
                THEN Append(titles, deentitize(raw))
                ELSE TitlesFrom(items, k + 1, seen \cup {toLowerCase(raw)},
                                Append(titles, deentitize(raw)), maxItems)

\* what the call returns for the items of the fetched feed
Headlines(items, opts) ==
  TitlesFrom(TownFiltered(items, Excludes(opts)), 1, {}, <<>>, MaxItemsOf(opts))

\* titles of feed items
TitleBozeman == <<"B", "o", "z", "e", "m", "a", "n", " ", "f", "i", "r", "e", " ", "c", "r", "e", "w", "s", " ", "r", "e", "s", "p", "o", "n", "d">>
TitleBOZEMAN == <<"B", "O", "Z", "E", "M", "A", "N", " ", "c", "o", "u", "n", "c", "i", "l", " ", "v", "o", "t", "e", "s">>
TitleBozemans == <<"B", "o", "z", "e", "m", "a", "n", "s", " ", "b", "e", "s", "t", " ", "p", "i", "e">>
TitleBelgrade == <<"R", "o", "a", "d", " ", "w", "o", "r", "k", " ", "i", "n", " ", "B", "e", "l", "g", "r", "a", "d", "e">>
TitleAmp == <<"P", "a", "r", "k", "s", " ", "&", "a", "m", "p", ";", " ", "t", "r", "a", "i", "l", "s", " ", "o", "p", "e", "n">>
TitleMarks == <<"!", "!", "!">>
TitleNone == <<>>
TitleSpaced == <<" ", "B", "o", "z", "e", "m", "a", "n", " ", "f", "i", "r", "e", " ", "c", "r", "e", "w", "s", " ", "r", "e", "s", "p", "o", "n", "d", " ">>

TownBozeman == <<"b", "o", "z", "e", "m", "a", "n">>
TownBelgradePadded == <<" ", "B", "e", "l", "g", "r", "a", "d", "e", " ">>

LocalLink == <<"news", "local-news", "story">>
SportsLink == <<"sports", "story">>

Item(title, link) == [title |-> title, link |-> link]

Feeds ==
  { <<>>,
    <<Item(TitleBozeman, LocalLink), Item(TitleBelgrade, LocalLink), Item(TitleAmp, LocalLink)>>,
    <<Item(TitleBOZEMAN, LocalLink), Item(TitleBozemans, LocalLink), Item(TitleBozeman, SportsLink)>>,
    <<Item(TitleMarks, LocalLink), Item(TitleNone, LocalLink), Item(TitleAmp, SportsLink)>>,
    <<Item(TitleBozeman, LocalLink), Item(TitleSpaced, LocalLink), Item(TitleBozemans, LocalLink)>>,
    <<Item(TitleBelgrade, SportsLink), Item(TitleBelgrade, <<>>)>> }

HeadlineOpts ==
  {[maxItems |-> n] : n \in {1, 2}}
    \cup {[url |-> u] : u \in {DEFAULT_URL_FALLBACK, "https://mirror.example/rss"}}
    \cup {[excludeTowns |-> t] :
            t \in {<<>>, <<TownBozeman>>, <<TownBelgradePadded, <<>>, TownBozeman>>}}
    \cup {[url |-> DEFAULT_URL_FALLBACK, excludeTowns |-> <<TownBozeman>>, maxItems |-> 1]}


\* one fetch attempt: its URL, its abort timer, what became of the fetch, and
\* the items of the feed it delivered
Attempt(url) == [url |-> url, timer |-> "armed", fate |-> "pending", items |-> <<>>]

Fetching == pc = "fetching" /\ fetches[Len(fetches)].fate = "pending"

SettleAttempt(fate, timer, items) ==
  [fetches EXCEPT ![Len(fetches)] = [@ EXCEPT !.fate = fate, !.timer = timer, !.items = items]]

\* the call up to its first await: arm the timer, start the fetch
fetchKBZKLocalHeadlines ==
  /\ pc = "headlines"
  /\ fetches' = <<Attempt(UrlOf(arg))>>
  /\ pc' = "fetching"
  /\ UNCHANGED <<model, mode, rgba, arg, calls, overlapVars, runVars>>
  /\ UNCHANGED uploadVars
  /\ UNCHANGED quantVars

\* res.ok and the body arrive: clear the timer, parse, filter, return the titles
feedArrives ==
  /\ Fetching
  /\ \E feed \in Feeds :
       /\ fetches' = SettleAttempt("ok", "cleared", feed)
       /\ out' = Headlines(feed, arg)
  /\ pc' = "returned"
  /\ UNCHANGED <<model, mode, rgba, pal, dy, dx, errA, errB>>
  /\ UNCHANGED <<arg, calls, overlapVars, runVars>>
  /\ UNCHANGED uploadVars

\* !res.ok, or fetch / res.text() rejects on a network error: control enters the catch
fetchFails ==
  /\ Fetching
  /\ \E fate \in {"HTTP error", "network error"} :
       fetches' = SettleAttempt(fate, "armed", <<>>)
  /\ pc' = "catch"
  /\ UNCHANGED <<model, mode, rgba, arg, calls, overlapVars, runVars>>
  /\ UNCHANGED uploadVars
  /\ UNCHANGED quantVars

\* the timer fires first: controller.abort() rejects the fetch
timerFires ==
  /\ Fetching
  /\ fetches' = SettleAttempt("aborted", "fired", <<>>)
  /\ pc' = "catch"
  /\ UNCHANGED <<model, mode, rgba, arg, calls, overlapVars, runVars>>
  /\ UNCHANGED uploadVars
  /\ UNCHANGED quantVars

ClearLast == [fetches EXCEPT ![Len(fetches)] = [@ EXCEPT !.timer = "cleared"]]

\* the catch recursing without clearTimeout(t)
catchBlockKeepsTimer ==
  /\ pc = "catch"
  /\ IF fetches[Len(fetches)].url # DEFAULT_URL_FALLBACK
     THEN /\ fetches' = Append(fetches, Attempt(DEFAULT_URL_FALLBACK))
          /\ pc' = "fetching"
          /\ UNCHANGED error
     ELSE /\ fetches' = ClearLast
          /\ pc' = "threw"
          /\ error' = [NoError EXCEPT !.kind = fetches[Len(fetches)].fate]
  /\ UNCHANGED <<model, mode, rgba, bChunks, rChunks, i, wire>>
  /\ UNCHANGED <<arg, calls, overlapVars, runVars>>
  /\ UNCHANGED quantVars

\* catch (e): once against the fallback URL, otherwise rethrow; the timer is
\* cleared either way
catchBlock ==
  /\ pc = "catch"
  /\ IF fetches[Len(fetches)].url # DEFAULT_URL_FALLBACK
     THEN /\ fetches' = Append(ClearLast, Attempt(DEFAULT_URL_FALLBACK))
          /\ pc' = "fetching"
          /\ UNCHANGED error
     ELSE /\ fetches' = ClearLast
          /\ pc' = "threw"
          /\ error' = [NoError EXCEPT !.kind = fetches[Len(fetches)].fate]
  /\ UNCHANGED <<model, mode, rgba, bChunks, rChunks, i, wire>>
  /\ UNCHANGED <<arg, calls, overlapVars, runVars>>
  /\ UNCHANGED quantVars

HeadlinesInit ==
  /\ pc = "headlines"
  /\ arg \in HeadlineOpts
  /\ fetches = <<>>
  /\ model = MONO /\ mode = Undefined /\ rgba = <<>>
  /\ calls = <<>>
  /\ OverlapIdle
  /\ RunIdle
  /\ UploadIdle
  /\ QuantIdle

HeadlinesNext ==
  \/ fetchKBZKLocalHeadlines
  \/ feedArrives
  \/ fetchFails
  \/ timerFires
  \/ catchBlock

SpecHeadlines == HeadlinesInit /\ [][HeadlinesNext]_vars

\* An armed timer fires unless the fetch settles first, and a settled promise's
\* continuation runs.
FairSpecHeadlines ==
  /\ SpecHeadlines
  /\ WF_vars(fetchKBZKLocalHeadlines)
  /\ WF_vars(timerFires)
  /\ WF_vars(catchBlock)

(***************************************************************************)
(* What the claims speak of.                                               *)
(***************************************************************************)
SupportedModels == {"12.48inch e-Paper", "12.48inch e-Paper (B)", "12.48inch e-Paper (C)"}
ColourCapable(m) == m \in {"12.48inch e-Paper (B)", "12.48inch e-Paper (C)"}

CeilDiv(a, b) == (a + b - 1) \div b

\* the mode uploadImageBuffer works with (its parameter defaults to 2)
CallMode == IF mode = Undefined THEN 2 ELSE mode

\* the reordered streams of the call's own arguments
DarkStream == reorderFor1248(packToChars(makePlanes(rgba, model, CallMode).blackBits)).value
AccentStream == reorderFor1248(packToChars(makePlanes(rgba, model, CallMode).ryBits)).value

StreamChunks == CeilDiv(XSTR * HEIGHT, CHUNK_SIZE)

Loads(path, stream) ==
  [k \in 1..StreamChunks |->
     [path |-> path, body |-> Slice(stream, (k - 1) * CHUNK_SIZE, k * CHUNK_SIZE)]]

ExpectedRequests ==
  <<[path |-> "EPD", body |-> model]>>
    \o Loads("LOADA", DarkStream)
    \o (IF ColourCapable(model) THEN Loads("LOADB", AccentStream) ELSE <<>>)
    \o <<[path |-> "SHOW", body |-> model]>>

AllAcked == \A k \in 1..Len(wire) : wire[k].fate = "ok"
NoneFailed == \A k \in 1..Len(wire) : wire[k].fate \in {"ok", "pending"}

\* the number of chunks of a stream of the panel's real length
RealChunkCount ==
  Len(chunk([k \in 1..(REAL_XSTR * REAL_HEIGHT) |-> 97], REAL_CHUNK_SIZE))

\* C1: with a supported model and only success responses, the requests issued
\* are at every moment a prefix of EPD(model), the N dark chunks as LOADA in
\* order, the M accent chunks as LOADB in order (colour models only, whatever
\* the mode), SHOW(model); the call ends exactly when the whole sequence is
\* acknowledged; only the newest request can be unanswered; and N = 11 on the
\* real panel.
C1_SuccessRunIssuesExactSequence ==
  /\ (model \in SupportedModels /\ NoneFailed) =>
       \A expected \in {ExpectedRequests} :
         /\ Len(wire) <= Len(expected)
         /\ \A k \in 1..Len(wire) :
              /\ wire[k].path = expected[k].path
              /\ wire[k].body = expected[k].body
              /\ (k < Len(wire) => wire[k].fate = "ok")
         /\ (pc = "done") <=> (AllAcked /\ Len(wire) = Len(expected))
         /\ pc \in {"call", "await", "done"}
  /\ RealChunkCount = 11
  /\ RealChunkCount = CeilDiv(320784, 30000)

C1_Witness ==
  /\ pc = "done"
  /\ model = "12.48inch e-Paper (B)"
  /\ mode = 0
  /\ Len(wire) = 2 + 2 * StreamChunks
  /\ StreamChunks >= 2
  /\ AllAcked

\* C2: a request that got a non-success response is the last request ever
\* issued, and the call has rejected.
C2_NonSuccessAborts ==
  \A k \in 1..Len(wire) :
    wire[k].fate = "failed" => (k = Len(wire) /\ pc = "rejected" /\ error.kind = "POST")

C2_Witness ==
  /\ pc = "rejected"
  /\ Len(wire) = 2
  /\ wire[2].path = "LOADA"
  /\ wire[2].fate = "failed"
  /\ Len(bChunks) > 1

Bodies(path) ==
  LET RECURSIVE Cat(_)
      Cat(k) == IF k = 0 THEN <<>>
                ELSE IF wire[k].path = path /\ wire[k].fate = "ok"
                     THEN Cat(k - 1) \o wire[k].body
                     ELSE Cat(k - 1)
  IN  Cat(Len(wire))

ShowIssued == \E k \in 1..Len(wire) : wire[k].path = "SHOW"

\* C3: once SHOW is issued, EPD was acknowledged and the acknowledged LOADA
\* (LOADB, colour models) bodies concatenate to the complete reordered dark
\* (accent) stream.
C3_ShowOnlyAfterCompleteLoad ==
  ShowIssued =>
    /\ wire[1].path = "EPD" /\ wire[1].fate = "ok"
    /\ Bodies("LOADA") = DarkStream
    /\ Len(DarkStream) = XSTR * HEIGHT
    /\ ColourCapable(model) =>
         (Bodies("LOADB") = AccentStream /\ Len(AccentStream) = XSTR * HEIGHT)

C3_Witness ==
  /\ ShowIssued
  /\ model = "12.48inch e-Paper (C)"
  /\ mode = 3
  /\ rgba = Striped
  /\ Len(bChunks) >= 2

\* C4: a request the device never answers times out: the call rejects.
C4_SilentRequestTimesOut ==
  (wire # <<>> /\ wire[Len(wire)].fate = "silent") ~> (pc = "rejected")

\* C5: a buffer whose length is not WIDTH*HEIGHT*4 makes the call reject
\* before any request is issued.
C5_WrongLengthRejectedBeforeNetwork ==
  (Len(rgba) # WIDTH * HEIGHT * 4 /\ pc # "call") => (pc = "rejected" /\ wire = <<>>)

\* C6: a model identifier other than the three supported ones makes the call
\* reject with 'Unsupported model' before any request is issued.
C6_UnsupportedModelRejected ==
  (model \notin SupportedModels /\ pc # "call") =>
     (pc = "rejected" /\ error.kind = "Unsupported model" /\ wire = <<>>)

\* the pixel number p (from 0) of the input buffer, <<r, g, b, a>>
InPixel(p) == <<At(rgba, 4 * p), At(rgba, 4 * p + 1), At(rgba, 4 * p + 2), At(rgba, 4 * p + 3)>>

\* C7: for a supported model, no pixel has ink (0) on both planes.
C7_PlanesMutuallyExclusive ==
  (pc = "planes" /\ model \in SupportedModels) =>
     /\ Len(out.blackBits) = WIDTH * HEIGHT
     /\ Len(out.ryBits) = WIDTH * HEIGHT
     /\ \A n \in 1..(WIDTH * HEIGHT) : ~(out.blackBits[n] = 0 /\ out.ryBits[n] = 0)

C7_Witness ==
  /\ pc = "planes"
  /\ model = "12.48inch e-Paper (B)"
  /\ \E n \in 1..(WIDTH * HEIGHT) : out.blackBits[n] = 0
  /\ \E n \in 1..(WIDTH * HEIGHT) : out.ryBits[n] = 0
  /\ \E n \in 1..(WIDTH * HEIGHT) : InPixel(n - 1) \notin {Black, White, Red}

ClaimedAccent(m) ==
  IF m = "12.48inch e-Paper (B)" THEN <<255, 0, 0>> ELSE <<220, 180, 0>>

\* C8: for a supported model, the dark bit of a pixel is 0 iff its alpha is not
\* 0 and its RGB is (0,0,0); the accent bit is 0 iff its alpha is not 0, the
\* model is colour-capable, the mode is odd and its RGB is the model's accent
\* colour; every bit is 0 or 1.
C8_PlanesClassifyExactly ==
  (pc = "planes" /\ model \in SupportedModels) =>
     \A n \in 1..(WIDTH * HEIGHT) :
       LET px == InPixel(n - 1)
           rgb == <<px[1], px[2], px[3]>>
       IN  /\ out.blackBits[n] \in {0, 1}
           /\ out.ryBits[n] \in {0, 1}
           /\ (out.blackBits[n] = 0) <=> (px[4] # 0 /\ rgb = <<0, 0, 0>>)
           /\ (out.ryBits[n] = 0) <=>
                (/\ px[4] # 0
                 /\ ColourCapable(model)
                 /\ CallMode % 2 = 1
                 /\ rgb = ClaimedAccent(model))

C8_Witness ==
  /\ pc = "planes"
  /\ model = "12.48inch e-Paper (C)"
  /\ mode = 3
  /\ \E n \in 1..(WIDTH * HEIGHT) : out.ryBits[n] = 0
  /\ \E n \in 1..(WIDTH * HEIGHT) : InPixel(n - 1) = <<255, 0, 0, 255>> /\ out.ryBits[n] = 1
  /\ \E n \in 1..(WIDTH * HEIGHT) : InPixel(n - 1)[4] = 0

\* pixel number p (from 0) of the quantizer's output
OutPixel(p) == <<out[4 * p + 1], out[4 * p + 2], out[4 * p + 3], out[4 * p + 4]>>

RGB(px) == <<px[1], px[2], px[3]>>

SqDist(a, b) ==
  (a[1] - b[1]) * (a[1] - b[1]) + (a[2] - b[2]) * (a[2] - b[2]) + (a[3] - b[3]) * (a[3] - b[3])

PaletteColours == {pal[k] : k \in 1..Len(pal)}

\* C9: flat quantization gives every pixel the palette entry at the smallest
\* squared RGB distance from the input pixel, the lowest index on a tie,
\* whatever the input alpha and the other pixels, and alpha 255.
C9_LevelPicksNearestEntry ==
  (pc = "quantized" /\ mode \in {0, 1}) =>
     /\ Len(out) = Len(rgba)
     /\ \A p \in 0..(WIDTH * HEIGHT - 1) :
          /\ OutPixel(p)[4] = 255
          /\ \E k \in 1..Len(pal) :
               /\ RGB(OutPixel(p)) = pal[k]
               /\ \A j \in 1..Len(pal) :
                    /\ SqDist(InPixel(p), pal[k]) <= SqDist(InPixel(p), pal[j])
                    /\ (SqDist(InPixel(p), pal[k]) = SqDist(InPixel(p), pal[j]) => k <= j)

\* a pixel at equal distance from white and red goes to white; its neighbours differ
C9_Witness ==
  /\ pc = "quantized"
  /\ mode = 1
  /\ model = "12.48inch e-Paper (B)"
  /\ \E p \in 0..(WIDTH * HEIGHT - 1) :
       /\ SqDist(InPixel(p), <<255, 255, 255>>) = SqDist(InPixel(p), <<255, 0, 0>>)
       /\ RGB(OutPixel(p)) = <<255, 255, 255>>
  /\ \E p \in 0..(WIDTH * HEIGHT - 1) : RGB(InPixel(p)) = <<128, 128, 128>>

\* the number of pixels quantizeDitherWeb has written so far
Dithered ==
  IF pc = "quantized" THEN WIDTH * HEIGHT
  ELSE IF pc \in {"row", "pixel"} THEN dy * WIDTH + dx
  ELSE 0

\* C10: dithered quantization returns a buffer as long as its input in which
\* every pixel is a palette entry with alpha 255 (so is every pixel already
\* written while it runs), pixel for pixel in the input's order: an input of
\* palette colours only comes back unchanged.
C10_DitherStaysInPalette ==
  (mode \in {2, 3} /\ pc \in {"row", "pixel", "quantized"}) =>
     /\ Len(out) = Len(rgba)
     /\ \A p \in 0..(Dithered - 1) :
          /\ RGB(OutPixel(p)) \in PaletteColours
          /\ OutPixel(p)[4] = 255
          /\ (\A q \in 0..p : RGB(InPixel(q)) \in PaletteColours) =>
               RGB(OutPixel(p)) = RGB(InPixel(p))

\* a finished run that carried errors of more than 64 units and used two colours
C10_Witness ==
  /\ pc = "quantized"
  /\ mode = 3
  /\ Len(pal) = 3
  /\ \E x \in 1..WIDTH, c \in 1..3 : errB[x][c][1] >= 64 \/ errB[x][c][1] < 0 - 64
  /\ \E p, q \in 0..(WIDTH * HEIGHT - 1) : RGB(OutPixel(p)) # RGB(OutPixel(q))

C10_WitnessOrder ==
  /\ pc = "quantized"
  /\ mode = 3
  /\ \A q \in 0..(WIDTH * HEIGHT - 1) : RGB(InPixel(q)) \in PaletteColours
  /\ \E p, q \in 0..(WIDTH * HEIGHT - 1) : RGB(InPixel(p)) # RGB(InPixel(q))

\* the share k/32 of a residual e, added to an accumulator entry
Share(acc, e, k) ==
  <<Plus(acc[1], Over32(Times(e[1], k))), Plus(acc[2], Over32(Times(e[2], k))),
    Plus(acc[3], Over32(Times(e[3], k)))>>

\* an accumulator row after column x (from 0) got weight w[x] of e, 0 meaning nothing
Spread(row, e, w) ==
  [x \in 1..WIDTH |-> IF w[x - 1] = 0 THEN row[x] ELSE Share(row[x], e, w[x - 1])]

\* weights by column: nothing anywhere but at the listed columns
Weights(given) == [x \in 0..(WIDTH - 1) |-> IF x \in DOMAIN given THEN given[x] ELSE 0]

\* the residual of the pixel a step of the dither loop has just written:
\* its error-adjusted value minus the colour now in the output
Residual ==
  [c \in 1..3 |-> Minus(Plus(Num(InPixel(dy * WIDTH + dx)[c]), errA[dx + 1][c]),
                        Num(out'[(dy * WIDTH + dx) * 4 + c]))]

\* C11 as stated: a left-edge pixel gives 2/32 of its residual to (same row,
\* next column), 7/32 to (next row, next column), 7/32 to (next row, same
\* column) and nothing to any other position.
C11_LeftEdgeWeightsAsStated ==
  [][(pc = "pixel" /\ dx = 0) =>
       /\ errA' = Spread(errA, Residual, Weights(1 :> 2))
       /\ errB' = Spread(errB, Residual, Weights(0 :> 7 @@ 1 :> 7))]_vars

\* C11 amended: a left-edge pixel gives 7/32 of its residual to (same row,
\* next column), 2/32 to (next row, next column), 7/32 to (next row, same
\* column) and nothing to any other position.
C11_LeftEdgeWeights ==
  [][(pc = "pixel" /\ dx = 0) =>
       /\ errA' = Spread(errA, Residual, Weights(1 :> 7))
       /\ errB' = Spread(errB, Residual, Weights(0 :> 7 @@ 1 :> 2))]_vars

\* the first pixel of the first row has spread a residual that is not zero
C11_Witness ==
  /\ pc = "pixel"
  /\ dy = 0
  /\ dx = 1
  /\ errA[2] # Zero3
  /\ errB[1] # Zero3
  /\ errB[2] # errB[1]

\* the weight a pixel in column x gives to the position ox columns to the
\* right and oy rows below
KernelWeight(x, ox, oy) ==
  IF x = 0
  THEN (IF <<ox, oy>> = <<1, 0>> THEN 7
        ELSE IF <<ox, oy>> = <<1, 1>> THEN 2
        ELSE IF <<ox, oy>> = <<0, 1>> THEN 7 ELSE 0)
  ELSE IF x = WIDTH - 1
  THEN (IF <<ox, oy>> = <<0 - 1, 1>> THEN 7
        ELSE IF <<ox, oy>> = <<0, 1>> THEN 9 ELSE 0)
  ELSE (IF <<ox, oy>> = <<0 - 1, 1>> THEN 3
        ELSE IF <<ox, oy>> = <<0, 1>> THEN 5
        ELSE IF <<ox, oy>> = <<1, 1>> THEN 1
        ELSE IF <<ox, oy>> = <<1, 0>> THEN 7 ELSE 0)

\* what pixel (y, x) gets from pixel (qy, qx), res holding the residuals of
\* the pixels before it in row-major order
From(acc, res, y, x, qy, qx) ==
  IF qy < 0 \/ qx < 0 \/ qx >= WIDTH \/ KernelWeight(qx, x - qx, y - qy) = 0 THEN acc
  ELSE Share(acc, res[qy * WIDTH + qx + 1], KernelWeight(qx, x - qx, y - qy))

\* the error pixel (y, x) receives: from its left neighbour and from the three
\* pixels above it
Received(res, y, x) ==
  From(From(From(From(Zero3, res, y, x, y, x - 1), res, y, x, y - 1, x - 1),
            res, y, x, y - 1, x), res, y, x, y - 1, x + 1)

\* the residuals of the first n pixels, from the input and the output alone;
\* res holds those found so far
RECURSIVE ResidualsFrom(_, _)
ResidualsFrom(n, res) ==
  IF Len(res) >= n THEN res
  ELSE LET p == Len(res)
           got == Received(res, p \div WIDTH, p % WIDTH)
       IN  ResidualsFrom(n, Append(res,
             <<Minus(Plus(Num(InPixel(p)[1]), got[1]), Num(OutPixel(p)[1])),
               Minus(Plus(Num(InPixel(p)[2]), got[2]), Num(OutPixel(p)[2])),
               Minus(Plus(Num(InPixel(p)[3]), got[3]), Num(OutPixel(p)[3]))>>))

Residuals(n) == ResidualsFrom(n, <<>>)

\* what one step of the dither loop may do to the two accumulator rows and
\* the loop counters
KernelStep ==
  /\ (pc = "pixel" /\ dx = WIDTH - 1) =>
       /\ errA' = errA
       /\ errB' = Spread(errB, Residual, Weights((WIDTH - 2) :> 7 @@ (WIDTH - 1) :> 9))
  /\ (pc = "pixel" /\ dx > 0 /\ dx < WIDTH - 1) =>
       /\ errA' = Spread(errA, Residual, Weights((dx + 1) :> 7))
       /\ errB' = Spread(errB, Residual, Weights((dx - 1) :> 3 @@ dx :> 5 @@ (dx + 1) :> 1))
  /\ pc = "pixel" =>
       dy' * WIDTH + dx' = dy * WIDTH + dx + 1 /\ dx' < WIDTH
  /\ (pc = "row" /\ dy < HEIGHT) =>
       errA' = errB /\ errB' = ZeroRow /\ dy' = dy /\ dx' = 0

\* the pixels written so far are the first dy * WIDTH + dx in row-major order;
\* in the first two rows the error a pixel starts from is the kernel's sum
\* over its left neighbour and the pixels above it
KernelState ==
  (mode \in {2, 3} /\ pc \in {"row", "pixel"}) =>
     /\ \A p \in 0..(WIDTH * HEIGHT - 1) : (out[4 * p + 4] = 255) <=> (p < dy * WIDTH + dx)
     /\ (pc = "pixel" /\ dy <= 1) =>
          errA[dx + 1] = Received(Residuals(dy * WIDTH + dx), dy, dx)
     /\ (pc = "pixel" /\ dy = 0 /\ dx = 0) => errA[1] = Zero3

\* C12: a right-edge pixel gives 7/32 to (next row, previous column) and 9/32
\* to (next row, same column) only; an interior pixel 3/32, 5/32, 1/32 to the
\* three pixels below and 7/32 to its right neighbour only; pixels are done row
\* by row, left to right; the error a pixel starts from is the sum of what its
\* row and the row above sent to its column, nothing for the first pixel.
C12_KernelAndRowOrder == []KernelState /\ [][KernelStep]_vars

\* the last pixel of the last row: its column got error from the row above and
\* from its left neighbour, an interior pixel, which also sent some downwards
C12_Witness ==
  /\ pc = "pixel"
  /\ dy = HEIGHT - 1
  /\ dx = WIDTH - 1
  /\ errA[WIDTH] # Zero3
  /\ errB[WIDTH - 1] # Zero3
  /\ errB[WIDTH - 2] # Zero3
  /\ \E p, q \in 0..(WIDTH * HEIGHT - 2) : RGB(OutPixel(p)) # RGB(OutPixel(q))

\* C13: a call of quantizeDitherWeb returns the bytes every earlier call on
\* the same buffer and palette returned, whatever was quantized in between.
C13_SameInputSameOutput ==
  pc = "quantized" =>
     \A k \in 1..Len(calls) :
        (calls[k].rgba = rgba /\ calls[k].pal = pal) => calls[k].out = out

\* the third call repeats the first one's input after a call on another buffer
C13_Witness ==
  /\ pc = "quantized"
  /\ Len(calls) = 2
  /\ calls[1].rgba = rgba
  /\ calls[2].rgba # rgba
  /\ calls[2].out # out
  /\ errB # ZeroRow

BlackWhite == << <<0, 0, 0>>, <<255, 255, 255>> >>

\* the palette the claim names for a model and a mode
ClaimedPalette(m, md) ==
  IF md \in {0, 2} THEN BlackWhite
  ELSE IF m = "12.48inch e-Paper" THEN BlackWhite
  ELSE IF m = "12.48inch e-Paper (B)" THEN BlackWhite \o << <<255, 0, 0>> >>
  ELSE BlackWhite \o << <<220, 180, 0>> >>

\* C14: for a supported model, paletteForMode gives black/white for modes 0 and
\* 2 and the model's base palette (black/white, plus red for (B), plus yellow
\* for (C)) for modes 1 and 3; entry 0 is black, entry 1 is white, and the
\* palettes with a grey entry are never given.
C14_PaletteForMode ==
  pc \in {"row", "pixel", "quantized"} =>
     /\ pal = ClaimedPalette(model, mode)
     /\ pal[1] = <<0, 0, 0>>
     /\ pal[2] = <<255, 255, 255>>
     /\ \A k \in 1..Len(pal) : pal[k] # <<127, 127, 127>> /\ pal[k] # <<127, 0, 0>>

\* a colour model asked for a monochrome mode got black/white only
C14_Witness ==
  /\ pc = "quantized"
  /\ model = "12.48inch e-Paper (C)"
  /\ mode = 2
  /\ Len(pal) = 2

\* bit number j (from 0) of the array handed to packToChars, 0 past its end
Bit(j) == IF j < Len(arg) THEN arg[j + 1] ELSE 0

\* C15: packToChars(b) has ceil(len(b)/4) characters, the k-th with code
\* 97 + 8*b[4k] + 4*b[4k+1] + 2*b[4k+2] + b[4k+3], bits past the end of b
\* counting as 0; every character is in 'a'..'p'.
C15_PackToChars ==
  pc = "packed" =>
     /\ Len(out) = CeilDiv(Len(arg), 4)
     /\ \A k \in 0..(Len(out) - 1) :
          /\ out[k + 1] = 97 + 8 * Bit(4 * k) + 4 * Bit(4 * k + 1)
                             + 2 * Bit(4 * k + 2) + Bit(4 * k + 3)
          /\ out[k + 1] \in 97..112

\* an array that ends in a partial group whose bits are not all equal
C15_Witness ==
  /\ pc = "packed"
  /\ Len(arg) > 4
  /\ Len(arg) % 4 = 2
  /\ arg[Len(arg)] = 1
  /\ arg[Len(arg) - 1] = 0
  /\ arg[1] # arg[4]
  /\ out[Len(out)] = 97 + 4

\* C16: in uploadImageBuffer, whatever the length of rgba, each packed plane
\* of a supported model has ceil(WIDTH/4) * HEIGHT characters (326 * 984 =
\* 320784 on the panel), so reorderFor1248 never raises its length error.
C16_PackedPlaneHasPanelLength ==
  /\ REAL_XSTR = 326
  /\ REAL_XSTR * REAL_HEIGHT = 320784
  /\ CeilDiv(REAL_WIDTH * REAL_HEIGHT, 4) = REAL_XSTR * REAL_HEIGHT
  /\ (model \in SupportedModels /\ pc # "call") =>
       /\ error.kind # "Unexpected message length"
       /\ pc # "rejected" \/ wire # <<>>
       /\ (Len(wire) = 1 /\ wire[1].fate = "pending") =>
            \A planes \in {makePlanes(rgba, model, CallMode)} :
               /\ Len(packToChars(planes.blackBits)) = XSTR * HEIGHT
               /\ ColourCapable(model) => Len(packToChars(planes.ryBits)) = XSTR * HEIGHT

\* a colour model and a buffer that is not panel-sized got past reordering
C16_Witness ==
  /\ model = "12.48inch e-Paper (C)"
  /\ Len(rgba) > WIDTH * HEIGHT * 4
  /\ Len(wire) = 1
  /\ wire[1].path = "EPD"
  /\ Len(bChunks) > 0
  /\ Len(rChunks) > 0

\* where reorderFor1248 takes each output character from: the positions
\* (from 1) it returns for the string that carries its own positions
Sources == reorderFor1248([k \in 1..(XSTR * HEIGHT) |-> k]).value

\* C17: on a string of XSTR*HEIGHT characters reorderFor1248 permutes
\* positions: the output is as long, every input position supplies exactly one
\* output position, and reading the output back through the inverse position
\* mapping gives the input.
C17_ReorderIsPermutation ==
  (pc = "reordered" /\ Len(arg) = XSTR * HEIGHT) =>
     \A src \in {Sources} :
        /\ ~out.threw
        /\ Len(out.value) = Len(arg)
        /\ Len(src) = Len(arg)
        /\ \A p \in 1..Len(arg) : Cardinality({j \in 1..Len(src) : src[j] = p}) = 1
        /\ \A j \in 1..Len(arg) : out.value[j] = arg[src[j]]
        /\ [p \in 1..Len(arg) |-> out.value[CHOOSE j \in 1..Len(src) : src[j] = p]] = arg

\* a string whose only mark starts the first row's right part was rearranged
C17_Witness ==
  /\ pc = "reordered"
  /\ ~out.threw
  /\ arg[LEFT_NIBBLES + 1] = 112
  /\ arg[1] = 97
  /\ out.value[TOP_HALF_ROWS * LEFT_NIBBLES + 1] = 112
  /\ out.value # arg

\* the output offset (from 0) the claim gives for input row r, column c
ClaimedOffset(r, c) ==
  LET rr == IF r < TOP_HALF_ROWS THEN r ELSE r - TOP_HALF_ROWS
      half == IF r < TOP_HALF_ROWS THEN 0 ELSE TOP_HALF_ROWS * XSTR
  IN  IF c < LEFT_NIBBLES THEN half + rr * LEFT_NIBBLES + c
      ELSE half + TOP_HALF_ROWS * LEFT_NIBBLES + rr * RIGHT_NIBBLES + (c - LEFT_NIBBLES)

\* C18: the output is the blocks top-left, top-right, bottom-left,
\* bottom-right: input character (r, c) of the top half goes to r*162 + c when
\* c < 162 and to 492*162 + r*164 + (c-162) otherwise; the bottom half the
\* same with r-492 for r and 492*326 added; rows keep their order in a block.
C18_FourBlockLayout ==
  /\ REAL_TOP_HALF_ROWS = 492
  /\ REAL_LEFT_NIBBLES = 162
  /\ REAL_RIGHT_NIBBLES = 164
  /\ REAL_XSTR = 326
  /\ (pc = "reordered" /\ ~out.threw) =>
       \A r \in 0..(HEIGHT - 1), c \in 0..(XSTR - 1) :
          out.value[ClaimedOffset(r, c) + 1] = arg[r * XSTR + c + 1]

\* the string of all-different characters was laid out block by block
C18_Witness ==
  /\ pc = "reordered"
  /\ ~out.threw
  /\ arg = Labelled(XSTR * HEIGHT)
  /\ out.value[TOP_HALF_ROWS * LEFT_NIBBLES + 1] = arg[LEFT_NIBBLES + 1]
  /\ out.value[Len(arg)] = arg[Len(arg)]

\* C19: reorderFor1248 throws on a string whose length is not XSTR*HEIGHT,
\* shorter, longer or empty, and returns nothing.
C19_WrongLengthThrows ==
  (pc = "reordered" /\ Len(arg) # XSTR * HEIGHT) => (out.threw /\ out.value = <<>>)

\* a string one row too long was refused
C19_Witness ==
  /\ pc = "reordered"
  /\ Len(arg) = XSTR * HEIGHT + XSTR
  /\ out.threw

\* the in-order concatenation of a list of strings
RECURSIVE Concat(_)
Concat(list) == IF list = <<>> THEN <<>> ELSE list[1] \o Concat(Tail(list))

\* C20: chunk(s, CHUNK_SIZE) is a list whose concatenation is s, of
\* ceil(len(s)/CHUNK_SIZE) chunks (none for the empty string), every chunk but
\* possibly the last of exactly CHUNK_SIZE characters, none empty or longer.
C20_ChunksPartitionTheString ==
  /\ REAL_CHUNK_SIZE = 30000
  /\ pc = "chunked" =>
       /\ Concat(out) = arg
       /\ Len(out) = CeilDiv(Len(arg), CHUNK_SIZE)
       /\ (arg = <<>>) => (out = <<>>)
       /\ \A k \in 1..Len(out) :
            /\ Len(out[k]) >= 1
            /\ Len(out[k]) <= CHUNK_SIZE
            /\ k < Len(out) => Len(out[k]) = CHUNK_SIZE

\* a string of several full chunks and a shorter last one
C20_Witness ==
  /\ pc = "chunked"
  /\ Len(out) >= 3
  /\ Len(out[Len(out)]) < CHUNK_SIZE
  /\ Len(out[1]) = CHUNK_SIZE

\* a string that is a whole number of chunks long
C20_WitnessExact ==
  /\ pc = "chunked"
  /\ Len(out) >= 2
  /\ Len(arg) = Len(out) * CHUNK_SIZE

Endpoints == {"EPD", "LOADA", "LOADB", "SHOW"}

\* C21: when a request gets a non-success HTTP response, the error surfaced by
\* uploadImageBuffer names the endpoint of that request (EPD, LOADA, LOADB or
\* SHOW), carries the response's HTTP status, and carries the response body
\* when it could be read; when the body cannot be read the error still
\* surfaces, with an empty body.
C21_ErrorNamesStepStatusBody ==
  \A k \in 1..Len(wire) :
    wire[k].fate = "failed" =>
      /\ pc = "rejected"
      /\ error.kind = "POST"
      /\ error.path = wire[k].path
      /\ error.path \in Endpoints
      /\ error.status = wire[k].response.status
      /\ ~ResOk(error.status)
      /\ error.text = (IF wire[k].response.readable THEN wire[k].response.text ELSE "")

C21_Witness ==
  /\ pc = "rejected"
  /\ wire # <<>>
  /\ wire[Len(wire)].path = "LOADB"
  /\ wire[Len(wire)].response = [status |-> 500, text |-> "busy", readable |-> FALSE]
  /\ error.status = 500

\* C22: when the fetch of a request rejects (no HTTP response), no further
\* request is issued, the call rejects, and the error names the endpoint of
\* the request that failed.
C22_ConnectionErrorNamesStep ==
  \A k \in 1..Len(wire) :
    wire[k].fate = "refused" =>
      /\ k = Len(wire)
      /\ pc = "rejected"
      /\ error.path = wire[k].path

\* the palette entry the claim names: nearest in squared RGB distance, the
\* lowest index among equals
SnapClaimed(rgb, p) ==
  p[CHOOSE k \in 1..Len(p) :
      \A j \in 1..Len(p) :
        \/ SqDist(rgb, p[k]) < SqDist(rgb, p[j])
        \/ (SqDist(rgb, p[k]) = SqDist(rgb, p[j]) /\ k <= j)]

\* C25: snapToPaletteRGBA gives each of the first width*height output pixels
\* alpha 255 and a colour of the chosen palette: white when the input alpha
\* is below 128, otherwise the entry nearest in squared RGB distance (lowest
\* index on a tie); this holds for the greys the fast paths handle too.
C25_SnapPicksNearestEntry ==
  pc = "snapped" =>
    /\ Len(out) = Len(rgba)
    /\ \A p \in 0..(arg.width * arg.height - 1) :
         /\ OutPixel(p)[4] = 255
         /\ \E k \in 1..Len(SnapPal(arg.triColor)) : RGB(OutPixel(p)) = SnapPal(arg.triColor)[k]
         /\ RGB(OutPixel(p)) =
              (IF InPixel(p)[4] < 128 THEN <<255, 255, 255>>
               ELSE SnapClaimed(RGB(InPixel(p)), SnapPal(arg.triColor)))

\* a tie between white and red goes to white (the lower index)
C25_Witness ==
  /\ pc = "snapped"
  /\ arg.triColor = "red"
  /\ InPixel(0) = <<255, 0, 255, 128>>
  /\ OutPixel(0) = White

\* a grey on the black fast path's threshold
C25_WitnessFastPath ==
  /\ pc = "snapped"
  /\ arg.triColor = "yellow"
  /\ InPixel(0) = <<24, 24, 24, 255>>
  /\ OutPixel(0) = Black

\* C23: no step of quantizeLevelWeb, quantizeDitherWeb, snapToPaletteRGBA,
\* makePlanes or uploadImageBuffer (whether it ends in success or in failure)
\* changes a byte of the caller's rgba buffer.
C23_InputBufferUntouched == [][rgba' = rgba]_vars

\* a stage has returned a result that differs from the buffer it was given
C23_Witness ==
  /\ pc \in {"quantized", "snapped"}
  /\ rgba # <<>>
  /\ out # rgba

C23_WitnessUpload ==
  /\ pc \in {"done", "rejected"}
  /\ wire # <<>>
  /\ rgba = Striped

\* the requests a call with these arguments sends when every one is acknowledged
RequestsOf(m, md, buf) ==
  LET planes == makePlanes(buf, m, md)
      dark == reorderFor1248(packToChars(planes.blackBits)).value
      accent == reorderFor1248(packToChars(planes.ryBits)).value
  IN  <<[path |-> "EPD", body |-> m]>>
        \o Loads("LOADA", dark)
        \o (IF ColourCapable(m) THEN Loads("LOADB", accent) ELSE <<>>)
        \o <<[path |-> "SHOW", body |-> m]>>

\* the requests of call c, in the order the device received them
SentBy(c) == SelectSeq(device, LAMBDA a : a.from = c)

\* the request sequences of the argument sets the calls are made with
ExpectedOfArgs ==
  << RequestsOf(OverlapArgs[1].model, 2, OverlapArgs[1].rgba),
     RequestsOf(OverlapArgs[2].model, 2, OverlapArgs[2].rgba),
     RequestsOf(OverlapArgs[3].model, 2, OverlapArgs[3].rgba) >>

\* C24: with two calls against one ip overlapping, every call still sends
\* exactly the EPD / LOADA / LOADB / SHOW sequence derived from its own
\* arguments (a prefix of it while running, all of it when done), whatever
\* order the two calls' requests reach the device in; nothing keeps one call
\* from sending while the other is between its requests.
C24_EachCallSendsItsOwnSequence ==
  pc = "overlap" =>
    \A c \in Callers :
      /\ \E n \in 1..Len(OverlapArgs) :
           /\ sessions[c].model = OverlapArgs[n].model
           /\ sessions[c].rgba = OverlapArgs[n].rgba
      /\ \A n \in 1..Len(OverlapArgs) :
           (/\ sessions[c].model = OverlapArgs[n].model
            /\ sessions[c].rgba = OverlapArgs[n].rgba
            /\ sessions[c].mode = 2) =>
             \A mine \in {SentBy(c)} :
               /\ Len(mine) <= Len(ExpectedOfArgs[n])
               /\ \A k \in 1..Len(mine) :
                    /\ mine[k].path = ExpectedOfArgs[n][k].path
                    /\ mine[k].body = ExpectedOfArgs[n][k].body
               /\ (sessions[c].pc = "done") => (Len(mine) = Len(ExpectedOfArgs[n]))
               /\ (sessions[c].pc = "call") <=> (mine = <<>>)

\* a LOADA chunk of call 2 reaches the device between two LOADA chunks of call 1
C24_Witness ==
  /\ pc = "overlap"
  /\ \E a, b, c \in 1..Len(device) :
       /\ a < b /\ b < c
       /\ device[a].from = 1 /\ device[a].path = "LOADA"
       /\ device[b].from = 2 /\ device[b].path = "LOADA"
       /\ device[c].from = 1 /\ device[c].path = "LOADA"

\* the SHOW of call 2 reaches the device before call 1 has sent all its chunks
C24_WitnessShow ==
  /\ pc = "overlap"
  /\ sessions[1].pc = "done" /\ sessions[2].pc = "done"
  /\ \E a, b \in 1..Len(device) :
       /\ a < b
       /\ device[a].from = 2 /\ device[a].path = "SHOW"
       /\ device[b].from = 1 /\ device[b].path = "LOADB"

PipelineSteps ==
  <<"loadIcsForDay", "fetchWeather", "fetchKBZKLocalHeadlines", "renderDailyBoardPNG",
    "paletteLevelColorQuantizePNG", "uploadImageBuffer">>

\* a coordinate the environment gives as a number (zero included)
ValidNumber(s) == parseFloat(s) # NaN

CoordinateError ==
  "WEATHER_LAT and WEATHER_LON environment variables are required and must be valid numbers"

\* C26: run() starts its steps in the order calendar, weather, headlines,
\* render, palette snap, upload; the device gets a request only when ICS_URL
\* is set, both coordinates are valid numbers, EPD_IP is set and all five
\* earlier steps were started and left by returning; and run() rejects the
\* coordinates only when one of them is not a valid number (so latitude 0 and
\* longitude 0 are accepted).
C26_RunOrderAndGuards ==
  /\ Len(steps) <= Len(PipelineSteps)
  /\ \A k \in 1..Len(steps) : steps[k] = PipelineSteps[k]
  /\ (env # <<>> /\ wire # <<>>) =>
       /\ env.ICS_URL # Unset
       /\ ValidNumber(env.WEATHER_LAT) /\ ValidNumber(env.WEATHER_LON)
       /\ env.EPD_IP # Unset
       /\ steps = PipelineSteps
  /\ (error.kind = CoordinateError) =>
       ~(ValidNumber(env.WEATHER_LAT) /\ ValidNumber(env.WEATHER_LON))

FetchFailures == {"HTTP error", "network error", "aborted"}

HeadlinesEnded == pc \in {"returned", "threw"}

C27_Safety ==
  fetches # <<>> =>
    /\ Len(fetches) <= 2
    /\ \A k \in 1..Len(fetches) :
         (k < Len(fetches) \/ HeadlinesEnded) => fetches[k].timer = "cleared"
    /\ (Len(fetches) = 2) =>
         /\ fetches[1].fate \in FetchFailures
         /\ fetches[1].url # DEFAULT_URL_FALLBACK
         /\ fetches[2].url = DEFAULT_URL_FALLBACK
    /\ (fetches[1].fate \in FetchFailures /\ fetches[1].url # DEFAULT_URL_FALLBACK
          /\ pc # "catch") => Len(fetches) = 2
    /\ (pc = "threw") <=>
         (/\ fetches[Len(fetches)].fate \in FetchFailures
          /\ fetches[Len(fetches)].url = DEFAULT_URL_FALLBACK
          /\ pc # "catch")
    /\ (pc = "threw") => error.kind = fetches[Len(fetches)].fate

\* C27: a call of fetchKBZKLocalHeadlines makes at most two fetches and ends
\* (returns or throws); a failed first fetch of a URL other than the fallback
\* is followed by exactly one attempt against the fallback URL; a failure of
\* the fallback URL is thrown to the caller with no further attempt; and no
\* attempt's timer is left armed once the attempt is over.
C27_AtMostTwoFetchesAndTerminates ==
  /\ []C27_Safety
  /\ <>HeadlinesEnded

C27_Witness ==
  /\ pc = "threw"
  /\ Len(fetches) = 2
  /\ fetches[1].fate = "aborted"
  /\ fetches[2].fate = "HTTP error"

\* the claim's reading of the town filter: a configured name stands in the
\* title as a whole word, in any case
ContainsTownAsWord(title, towns) ==
  \E n \in 1..Len(towns), at \in 0..Len(title) :
    /\ MatchAt(title, at, towns[n], TRUE)
    /\ (at = 0 \/ ~IsWordChar(title[at]))
    /\ (at + Len(towns[n]) = Len(title) \/ ~IsWordChar(title[at + Len(towns[n]) + 1]))

FeedItems == fetches[Len(fetches)].items

\* C28: the town filter removes a local-news item only when its title holds a
\* configured town name as a whole word; with the default empty list it
\* removes nothing, so a feed with a local-news item that has a non-empty
\* title gives a non-empty result.
C28_TownFilterRemovesOnlyTownTitles ==
  pc = "returned" =>
    /\ \A k \in 1..Len(FeedItems) :
         (/\ IsLocalNews(FeedItems[k])
          /\ \A j \in 1..Len(TownFiltered(FeedItems, Excludes(arg))) :
               TownFiltered(FeedItems, Excludes(arg))[j] # FeedItems[k]) =>
           ContainsTownAsWord(FeedItems[k].title, Excludes(arg))
    /\ (/\ Excludes(arg) = <<>>
        /\ \E k \in 1..Len(FeedItems) :
             IsLocalNews(FeedItems[k]) /\ trim(FeedItems[k].title) # <<>>) =>
         out # <<>>

\* how makePlanes classifies an opaque pixel of colour c for a model and a mode
Classified(c, m, md) ==
  PlaneBits(c[1], c[2], c[3], 255, TriColor(ColorOf(m), md), Accent(ColorOf(m)))

\* C29: for a supported model and a mode, makePlanes with that model and mode
\* takes entry 0 of paletteForMode(model, mode) as dark ink only, entry 1 as
\* no ink and entry 2, when there is one, as accent ink only; so every pixel
\* of the quantizer's output is one of these, and the planes made from the
\* output have dark ink exactly on the pixels quantized to entry 0 and accent
\* ink exactly on the pixels quantized to entry 2.
C29_QuantizerAndPlanesAgree ==
  (pc = "quantized" /\ model \in SupportedModels) =>
    /\ Classified(pal[1], model, mode) = <<0, 1>>
    /\ Classified(pal[2], model, mode) = <<1, 1>>
    /\ (Len(pal) >= 3) => (Classified(pal[3], model, mode) = <<1, 0>>)
    /\ Len(pal) <= 3
    /\ \A planes \in {makePlanes(out, model, mode)} :
         \A n \in 1..(WIDTH * HEIGHT) :
           /\ \E k \in 1..Len(pal) : OutPixel(n - 1) = pal[k] \o <<255>>
           /\ (planes.blackBits[n] = 0) <=> (RGB(OutPixel(n - 1)) = pal[1])
           /\ (planes.ryBits[n] = 0) <=> (Len(pal) >= 3 /\ RGB(OutPixel(n - 1)) = pal[3])

\* a yellow panel in a colour mode with a pixel quantized to yellow and one to black
C29_Witness ==
  /\ pc = "quantized"
  /\ model = "12.48inch e-Paper (C)"
  /\ mode \in {1, 3}
  /\ \E n \in 1..(WIDTH * HEIGHT) : RGB(OutPixel(n - 1)) = <<220, 180, 0>>
  /\ \E n \in 1..(WIDTH * HEIGHT) : RGB(OutPixel(n - 1)) = <<0, 0, 0>>

\* the chunks uploadImageBuffer would send for the call's model and buffer under mode md
ChunksUnder(md) ==
  LET planes == makePlanes(rgba, model, md)
  IN  [black |-> chunk(reorderFor1248(packToChars(planes.blackBits)).value, CHUNK_SIZE),
       accent |-> IF ColourCapable(model)
                  THEN chunk(reorderFor1248(packToChars(planes.ryBits)).value, CHUNK_SIZE)
                  ELSE <<>>]

\* C30: for a supported model and a given buffer, the chunks a call sends are
\* the same under every mode with the same low bit (0, 2 and the default on
\* one side, 1 and 3 on the other), and under each of the four modes a pixel
\* that is neither exactly black nor exactly the model's accent colour has no
\* ink on either plane.
C30_ModeCountsByLowBitOnly ==
  (model \in SupportedModels /\ pc = "await" /\ Len(wire) = 1) =>
    \A md \in 0..3 :
      \A planes \in {makePlanes(rgba, model, md)} :
        /\ (md % 2 = CallMode % 2) =>
             \A sent \in {ChunksUnder(md)} :
               /\ bChunks = sent.black
               /\ rChunks = sent.accent
               /\ wire[1].path = "EPD" /\ wire[1].body = model
        /\ \A n \in 1..(WIDTH * HEIGHT) :
             (/\ RGB(InPixel(n - 1)) # <<0, 0, 0>>
              /\ RGB(InPixel(n - 1)) # ClaimedAccent(model)) =>
               (planes.blackBits[n] = 1 /\ planes.ryBits[n] = 1)

\* a red panel in mode 3 whose accent chunks differ from those of the even modes
C30_Witness ==
  /\ pc = "await" /\ Len(wire) = 1
  /\ model = "12.48inch e-Paper (B)"
  /\ mode = 3
  /\ rChunks # ChunksUnder(2).accent
  /\ rChunks = ChunksUnder(1).accent

====
